---- MODULE Spec2Model ----
(***************************************************************************)
(* TorrentFlix: the multi-source torrent search pipeline, its dedup/merge  *)
(* step, the single-source search entry point with its presentation-layer  *)
(* handler, the caches, the HTTP helper, the metadata adapters, the 1337x  *)
(* scraper and the source registry.                                        *)
(*                                                                         *)
(* Each state machine of this module has its own specification:            *)
(*   SpecSearch  TorrentSearcher.search (legacy/torrent_search copy 2.py)  *)
(*   SpecDedup   TorrentSearcher._deduplicate_results as a pure function   *)
(*   SpecApp     MovieSearchApp._perform_search over search_movies         *)
(*   SpecCache   utils/chaching.py Cache.get / set / clear                 *)
(*   SpecSession BaseTorrentSearcher request cache across searches         *)
(*   SpecHttp    utils/http_client.py make_api_request                     *)
(*   SpecMeta    MetadataManager.get_metadata                              *)
(*   SpecAdapter the review adapters' get_url / get_info                   *)
(*   SpecLeetx   LeetxTVSearcher._search_leetx_tv (SpecLeetxFair: fair)    *)
(*   SpecLookup  TorrentSource.from_display_name                           *)
(*   SpecCatalog get_sources_by_category and the lists of the window       *)
(*   SpecEnrich  Movie.with_metadata / with_metacritic_data                *)
(* A specification leaves the variables of the other machines at their     *)
(* idle values.                                                            *)
(***************************************************************************)
EXTENDS Integers, Sequences, FiniteSets, TLC

VARIABLES
    \* ---- TorrentSearcher.search ----
    pc,             \* phase of the one search call
    limit,          \* the limit argument
    srcOutcome,     \* what each source's _search_source task does
    pendingSrc,     \* source futures not yet yielded by as_completed
    results,        \* the results list (line 650)
    uniqueResults,  \* unique_results (line 667)
    sortedResults,  \* sorted_results (line 668)
    pendingEnrich,  \* enrichment futures not yet yielded by as_completed
    enrichFailed,   \* positions of sorted_results whose enrichment raised
    enriched,       \* enriched_results (line 679)
    returned,       \* the list search returned
    raisedType,     \* the exception class search raised, "none" if none
    \* ---- _deduplicate_results as a function ----
    ddPc,           \* "start", "once" (one pass done), "twice"
    ddIn,           \* the argument list L, as passed
    ddHeap,         \* L's Movie objects as they read after the call
    ddOut,          \* _deduplicate_results(L), as returned
    ddOutHeap,      \* that list's Movie objects after the second call
    ddOut2,         \* _deduplicate_results of that output
    \* ---- MovieSearchApp over TorrentSearcher.search_movies ----
    uiQuery,        \* searchInput.text()
    uiSource,       \* sourceComboBox.currentText()
    rendered,       \* what the window shows: error label, no-results label, details
    requestCache,   \* keys of TorrentSearcher._request_cache
    lastCall,       \* the last search_movies call made by _perform_search
    ytsCall,        \* the last direct YTSSearcher.search_movies call
    outcomesSeen    \* <<condition, rendered state>> of every search so far
                    \* that was blocked, failed or empty
    ,
    \* ---- utils/chaching.py Cache ----
    files,          \* the cache directory: path -> Absent, Corrupt or entry
    now,            \* datetime.now(), in minutes
    lastSet,        \* key -> the data of the last set(key, data), if any
    lastGet         \* the last get: its key, its result, what it found
    ,
    \* ---- one searcher across its top-level searches ----
    sPc,            \* "idle", "cleared" (clear_cache done), "running"
    sEpoch,         \* number of top-level searches begun so far
    sCall,          \* source and query of the search in progress
    sReqCache,      \* _request_cache: <<key, search that wrote it>>
    sDir,           \* the cache directory: <<key, search that wrote it>>
    sAtFirst,       \* both caches before clear_cache and at the first request
    sServed         \* <<search that wrote, search that was served>> per hit
                    \* served while a search was running

searchVars == <<pc, limit, srcOutcome, pendingSrc, results, uniqueResults,
                sortedResults, pendingEnrich, enrichFailed, enriched,
                returned, raisedType>>
dedupVars == <<ddPc, ddIn, ddHeap, ddOut, ddOutHeap, ddOut2>>
appVars == <<uiQuery, uiSource, rendered, requestCache, lastCall, ytsCall,
             outcomesSeen>>
cacheVars == <<files, now, lastSet, lastGet>>
sessionVars == <<sPc, sEpoch, sCall, sReqCache, sDir, sAtFirst, sServed>>

VARIABLES
    \* ---- make_api_request ----
    hPc,            \* "calling", "returned", "raised"
    hHeaders,       \* the headers argument of make_api_request
    hAttempt,       \* attempt, the loop variable
    hLog            \* the session.get calls made so far, with their outcomes

httpVars == <<hPc, hHeaders, hAttempt, hLog>>

VARIABLES
    \* ---- MetadataManager.get_metadata ----
    mPc,            \* "called", "gathering", "returned", "raised"
    mRequest,       \* the sources argument: None, or a list of names
    mOutcome,       \* what each registered source's get_metadata does
    mTasks,         \* the futures submitted: positions of the sources list
    mPending,       \* futures not yet yielded by as_completed
    mDone,          \* the futures in the order as_completed yielded them
    mMetadata       \* the metadata dict

metaVars == <<mPc, mRequest, mOutcome, mTasks, mPending, mDone, mMetadata>>

VARIABLES
    \* ---- a metadata adapter: get_url, then get_info ----
    aPc,            \* "probing", "url_returned", "info_returned"
    aAdapter,       \* "metacritic" or "rottentomatoes"
    aProbe,         \* what requests.head does for each candidate url
    aProbed,        \* the candidates probed so far, in probing order
    aUrl,           \* what get_url returned
    aFetch,         \* what the page request of get_info ended in
    aInfo           \* what get_info returned

adapterVars == <<aPc, aAdapter, aProbe, aProbed, aUrl, aFetch, aInfo>>

VARIABLES
    \* ---- LeetxTVSearcher._search_leetx_tv ----
    lPc,            \* "loop", "rows", "build", "returned", "raised",
                    \* "blocked"
    lLimit,         \* the limit argument
    lPage,          \* page
    lRows,          \* the rows of the current page not yet processed
    lHasNext,       \* whether the current page has a pagination link
    lTotal,         \* total_results
    lShows,         \* shows: the groups of torrents by show, season, episode
    lTodo,          \* the show names the result loop has still to build
    lResults,       \* final_results
    lRaised,        \* the exception class the search raised, "none" if none
    lWaiting,       \* the network call the search waits in, "none" if none
    lRequests       \* result pages requested so far, and detail pages
                    \* requested for the row handled last

leetxVars == <<lPc, lLimit, lPage, lRows, lHasNext, lTotal, lShows, lTodo,
               lResults, lRaised, lWaiting, lRequests>>

VARIABLES
    \* ---- TorrentSource.from_display_name (src/domin/models.py) ----
    nName,          \* the argument of the last from_display_name call
    nResult,        \* the member it returned, or "ValueError"
    nCalls          \* from_display_name calls made so far

lookupVars == <<nName, nResult, nCalls>>

VARIABLES
    \* ---- The offered source lists (src/domin/models.py, src/app.py) ----
    gPc,            \* "class" before _init_ui has run, "ui" after
    gCategories,    \* self.categories: category -> offered sources
    gCategory,      \* the category shown in categoryComboBox
    gItems,         \* the sources held by sourceComboBox, in order
    gIndex,         \* the current index of sourceComboBox (from 1)
    gSelected       \* the source _perform_search resolved last

catalogVars == <<gPc, gCategories, gCategory, gItems, gIndex, gSelected>>

VARIABLES
    \* ---- Movie.with_metadata / with_metacritic_data (src/domin/models.py) ----
    eReceiver,      \* the Movie the last constructor was called on, as it reads after the call
    eMovie,         \* the Movie the last constructor returned
    eOps            \* the constructors applied so far, in order

enrichVars == <<eReceiver, eMovie, eOps>>
otherVars == <<sessionVars, httpVars, metaVars, adapterVars, leetxVars, lookupVars, catalogVars, enrichVars>>
coreVars == <<searchVars, dedupVars, appVars, cacheVars>>
vars == <<coreVars, otherVars>>

\* What each of the later machines leaves alone.
SessionFrame ==
    UNCHANGED <<coreVars, httpVars, metaVars, adapterVars, leetxVars,
                lookupVars, catalogVars, enrichVars>>
HttpFrame ==
    UNCHANGED <<coreVars, sessionVars, metaVars, adapterVars, leetxVars,
                lookupVars, catalogVars, enrichVars>>
MetaFrame ==
    UNCHANGED <<coreVars, sessionVars, httpVars, adapterVars, leetxVars,
                lookupVars, catalogVars, enrichVars>>
AdapterFrame ==
    UNCHANGED <<coreVars, sessionVars, httpVars, metaVars, leetxVars,
                lookupVars, catalogVars, enrichVars>>
LeetxFrame ==
    UNCHANGED <<coreVars, sessionVars, httpVars, metaVars, adapterVars,
                lookupVars, catalogVars, enrichVars>>
LookupFrame ==
    UNCHANGED <<coreVars, sessionVars, httpVars, metaVars, adapterVars,
                leetxVars, catalogVars, enrichVars>>
CatalogFrame ==
    UNCHANGED <<coreVars, sessionVars, httpVars, metaVars, adapterVars,
                leetxVars, lookupVars, enrichVars>>
EnrichFrame ==
    UNCHANGED <<coreVars, sessionVars, httpVars, metaVars, adapterVars,
                leetxVars, lookupVars, catalogVars>>

(***************************************************************************)
(* Bounds of the model.                                                    *)
(***************************************************************************)
NumSources == 2
MaxPerSource == 1
MaxLen == 3

Sources == 1..NumSources
Limits == 1..2

(***************************************************************************)
(* Domain model: Torrent and Movie.  A Torrent is identified here by its   *)
(* url and carries its seed count; a Movie carries its title, year, one    *)
(* scalar field (poster_url, standing for every field that is neither the  *)
(* key nor the torrent list) and the metadata field.                       *)
(***************************************************************************)
Torrent(u, s) == [url |-> u, seeds |-> s]

NoMetadata == "None"

Movie(t, y, p, ts) ==
    [title |-> t, year |-> y, poster_url |-> p, torrents |-> ts,
     metadata |-> NoMetadata]

MovieUp == Movie("Up", 2009, "p1", <<Torrent("u1", 5)>>)
MovieUP == Movie("UP", 2009, "p2", <<Torrent("u2", 9)>>)
MovieHeat == Movie("Heat", 1995, "p3", <<Torrent("u3", 7), Torrent("u4", 2)>>)
MovieBare == Movie("Heat", 1996, "p4", <<>>)

MovieUniverse == {MovieUp, MovieUP, MovieHeat, MovieBare}

\* Sequences over S of length at most n.
SeqUpTo(S, n) == UNION {[1..k -> S] : k \in 0..n}

(***************************************************************************)
(* str.lower() on the titles of the universe.                              *)
(***************************************************************************)
Lower(t) ==
    CASE t = "Up" -> "up"
      [] t = "UP" -> "up"
      [] t = "Heat" -> "heat"
      [] OTHER -> t

\* key = f"{movie.title.lower()}_{movie.year}"
DedupKey(m) == Lower(m.title) \o "_" \o ToString(m.year)

\* next(m for m in unique if key(m) == key): the first position holding key.
FirstWithKey(unique, key) ==
    CHOOSE i \in 1..Len(unique) :
        /\ DedupKey(unique[i]) = key
        /\ \A j \in 1..(i - 1) : DedupKey(unique[j]) # key

\* A merge that lets the later-seen record win the scalar fields.
ExtendTorrentsLaterWins(existing, movie) ==
    [movie EXCEPT !.torrents = existing.torrents \o movie.torrents]

\* existing.torrents.extend(movie.torrents)
ExtendTorrents(existing, movie) ==
    [existing EXCEPT !.torrents = existing.torrents \o movie.torrents]

\* The loop of _deduplicate_results from position i on.
RECURSIVE DedupLoop(_, _, _, _)
DedupLoop(rs, i, seen, unique) ==
    IF i > Len(rs) THEN unique
    ELSE LET movie == rs[i]
             key == DedupKey(movie)
         IN IF key \notin seen
            THEN DedupLoop(rs, i + 1, seen \cup {key}, Append(unique, movie))
            ELSE LET e == FirstWithKey(unique, key)
                 IN DedupLoop(rs, i + 1, seen,
                        [unique EXCEPT ![e] = ExtendTorrents(unique[e], movie)])

\* The loop with unique.append(movie) outside the if: a duplicate is merged
\* into the first-seen record and kept as a record of its own as well.
RECURSIVE DedupLoopAppendAll(_, _, _, _)
DedupLoopAppendAll(rs, i, seen, unique) ==
    IF i > Len(rs) THEN unique
    ELSE LET movie == rs[i]
             key == DedupKey(movie)
         IN IF key \notin seen
            THEN DedupLoopAppendAll(rs, i + 1, seen \cup {key},
                                    Append(unique, movie))
            ELSE LET e == FirstWithKey(unique, key)
                 IN DedupLoopAppendAll(rs, i + 1, seen,
                        Append([unique EXCEPT
                                  ![e] = ExtendTorrents(unique[e], movie)],
                               movie))

DeduplicateAppendAll(rs) == DedupLoopAppendAll(rs, 1, {}, <<>>)

DeduplicateResults(rs) == DedupLoop(rs, 1, {}, <<>>)

(***************************************************************************)
(* The sort of search: sorted(unique, key=max seeds, reverse=True).        *)
(* max() of an empty torrent list raises ValueError; sorted evaluates the  *)
(* key of every element, so one such record makes the whole sort raise.    *)
(***************************************************************************)
SeedsOf(m) == {m.torrents[i].seeds : i \in 1..Len(m.torrents)}

MaxSeeds(m) == CHOOSE s \in SeedsOf(m) : \A r \in SeedsOf(m) : r <= s

SortKeyRaises(ms) == \E i \in 1..Len(ms) : ms[i].torrents = <<>>

\* Insert m behind every element whose key is >= its own: a stable
\* descending order, as sorted(..., reverse=True) gives.
RECURSIVE InsertDesc(_, _)
InsertDesc(m, s) ==
    IF s = <<>> THEN <<m>>
    ELSE IF MaxSeeds(Head(s)) >= MaxSeeds(m)
         THEN <<Head(s)>> \o InsertDesc(m, Tail(s))
         ELSE <<m>> \o s

RECURSIVE SortLoop(_, _, _)
SortLoop(ms, i, acc) ==
    IF i > Len(ms) THEN acc ELSE SortLoop(ms, i + 1, InsertDesc(ms[i], acc))

SortBySeedsDesc(ms) == SortLoop(ms, 1, <<>>)

\* A slice that keeps every element.
KeepAll(ms, n) == ms

\* [:limit]
Truncate(ms, n) == SubSeq(ms, 1, IF n < Len(ms) THEN n ELSE Len(ms))

\* Movie.with_metadata: a new Movie with the metadata field populated.
MetadataMapping == "metadata"

WithMetadata(m, md) == [m EXCEPT !.metadata = md]

(***************************************************************************)
(* TorrentSearcher.search: one call.                                       *)
(***************************************************************************)
\* What a _search_source task can do: return a list of Movies, or raise.
SourceOutcomes ==
    {[kind |-> "ok", movies |-> ms] : ms \in SeqUpTo(MovieUniverse, MaxPerSource)}
    \cup {[kind |-> "ConnectionBlockedError", movies |-> <<>>],
          [kind |-> "MovieSearchError", movies |-> <<>>]}

SearchIdle ==
    /\ pc = "off"
    /\ limit = 1
    /\ srcOutcome = <<>>
    /\ pendingSrc = {}
    /\ results = <<>>
    /\ uniqueResults = <<>>
    /\ sortedResults = <<>>
    /\ pendingEnrich = {}
    /\ enrichFailed = {}
    /\ enriched = <<>>
    /\ returned = <<>>
    /\ raisedType = "none"

DedupIdle ==
    /\ ddPc = "off"
    /\ ddIn = <<>>
    /\ ddHeap = <<>>
    /\ ddOut = <<>>
    /\ ddOutHeap = <<>>
    /\ ddOut2 = <<>>

NoCall ==
    [source |-> "none", transport |-> "none", inner |-> "none",
     raised |-> "none", movies |-> <<>>]

Hidden == [error |-> "", noResults |-> FALSE, details |-> FALSE]

AppIdle ==
    /\ uiQuery = ""
    /\ uiSource = "off"
    /\ rendered = Hidden
    /\ requestCache = {}
    /\ lastCall = NoCall
    /\ ytsCall = NoCall
    /\ outcomesSeen = {}

CacheIdle ==
    /\ files = <<>>
    /\ now = 0
    /\ lastSet = <<>>
    /\ lastGet = <<>>

NoSearchCall == [source |-> "none", query |-> ""]

NoSnapshot ==
    [taken |-> FALSE, reqBefore |-> {}, dirBefore |-> {}, req |-> {}, dir |-> {}]

SessionIdle ==
    /\ sPc = "off"
    /\ sEpoch = 0
    /\ sCall = NoSearchCall
    /\ sReqCache = {}
    /\ sDir = {}
    /\ sAtFirst = NoSnapshot
    /\ sServed = {}

HttpIdle ==
    /\ hPc = "off"
    /\ hHeaders = "none"
    /\ hAttempt = 0
    /\ hLog = <<>>

NoRequest == [given |-> FALSE, names |-> <<>>]

MetaIdle ==
    /\ mPc = "off"
    /\ mRequest = NoRequest
    /\ mOutcome = <<>>
    /\ mTasks = {}
    /\ mPending = {}
    /\ mDone = <<>>
    /\ mMetadata = <<>>

NoInfo == [none |-> TRUE, dict |-> <<>>]

AdapterIdle ==
    /\ aPc = "off"
    /\ aAdapter = "none"
    /\ aProbe = <<>>
    /\ aProbed = <<>>
    /\ aUrl = ""
    /\ aFetch = "none"
    /\ aInfo = NoInfo

LeetxIdle ==
    /\ lPc = "off"
    /\ lLimit = 1
    /\ lPage = 1
    /\ lRows = <<>>
    /\ lHasNext = FALSE
    /\ lTotal = 0
    /\ lShows = <<>>
    /\ lTodo = <<>>
    /\ lResults = <<>>
    /\ lRaised = "none"
    /\ lWaiting = "none"
    /\ lRequests = [pages |-> 0, details |-> 0]

LookupIdle ==
    /\ nName = ""
    /\ nResult = "none"
    /\ nCalls = 0

CatalogIdle ==
    /\ gPc = "class"
    /\ gCategories = <<>>
    /\ gCategory = ""
    /\ gItems = <<>>
    /\ gIndex = 0
    /\ gSelected = "none"

\* Movie(title, ..., metacritic_url='', metacritic_info=None, metadata=None);
\* poster_url stands for the twelve other required fields.
DomainMovie(title, poster) ==
    [title |-> title, torrents |-> <<>>, poster_url |-> poster,
     metacritic_url |-> "", metacritic_info |-> "None", metadata |-> "None"]

EnrichIdle ==
    /\ eReceiver = DomainMovie("", "")
    /\ eMovie = DomainMovie("", "")
    /\ eOps = <<>>

OtherIdle ==
    /\ SessionIdle
    /\ HttpIdle
    /\ MetaIdle
    /\ AdapterIdle
    /\ LeetxIdle
    /\ LookupIdle
    /\ CatalogIdle
    /\ EnrichIdle

CoreIdle ==
    /\ SearchIdle
    /\ DedupIdle
    /\ AppIdle
    /\ CacheIdle

\* Every later machine but m is idle.
IdleExcept(m) ==
    /\ IF m = "Session" THEN TRUE ELSE SessionIdle
    /\ IF m = "Http" THEN TRUE ELSE HttpIdle
    /\ IF m = "Meta" THEN TRUE ELSE MetaIdle
    /\ IF m = "Adapter" THEN TRUE ELSE AdapterIdle
    /\ IF m = "Leetx" THEN TRUE ELSE LeetxIdle
    /\ IF m = "Lookup" THEN TRUE ELSE LookupIdle
    /\ IF m = "Catalog" THEN TRUE ELSE CatalogIdle
    /\ IF m = "Enrich" THEN TRUE ELSE EnrichIdle

InitSearch ==
    /\ pc = "idle"
    /\ limit \in Limits
    /\ srcOutcome \in [Sources -> SourceOutcomes]
    /\ pendingSrc = {}
    /\ results = <<>>
    /\ uniqueResults = <<>>
    /\ sortedResults = <<>>
    /\ pendingEnrich = {}
    /\ enrichFailed = {}
    /\ enriched = <<>>
    /\ returned = <<>>
    /\ raisedType = "none"
    /\ DedupIdle
    /\ AppIdle
    /\ CacheIdle
    /\ OtherIdle

\* lines 650-657: results = [] and one task submitted per source.
Dispatch ==
    /\ pc = "idle"
    /\ pc' = "dispatching"
    /\ pendingSrc' = Sources
    /\ results' = <<>>
    /\ UNCHANGED <<limit, srcOutcome, uniqueResults, sortedResults,
                   pendingEnrich, enrichFailed, enriched, returned, raisedType>>
    /\ UNCHANGED <<dedupVars, appVars, cacheVars, otherVars>>

\* lines 659-664: as_completed yields source s; its result extends results,
\* its exception is logged and dropped.
SourceCompletes(s) ==
    /\ pc = "dispatching"
    /\ s \in pendingSrc
    /\ pendingSrc' = pendingSrc \ {s}
    /\ results' = IF srcOutcome[s].kind = "ok"
                  THEN results \o srcOutcome[s].movies
                  ELSE results
    /\ UNCHANGED <<pc, limit, srcOutcome, uniqueResults, sortedResults,
                   pendingEnrich, enrichFailed, enriched, returned, raisedType>>
    /\ UNCHANGED <<dedupVars, appVars, cacheVars, otherVars>>

\* A loop that stops waiting while one future is still outstanding.
AllButOneYielded(pending) == Cardinality(pending) <= 1

\* for future in as_completed(futures) has yielded every future, and the
\* with block of the executor has been left (shutdown(wait=True)).
AllYielded(pending) == pending = {}

\* lines 666-677: dedup, sort, limit, and one enrichment task per survivor.
\* The ValueError of max() over an empty torrent list is not caught.
MergeSortLimit ==
    /\ pc = "dispatching"
    /\ AllYielded(pendingSrc)
    /\ uniqueResults' = DeduplicateResults(results)
    /\ IF SortKeyRaises(uniqueResults')
       THEN /\ pc' = "raised"
            /\ raisedType' = "ValueError"
            /\ UNCHANGED <<sortedResults, pendingEnrich>>
       ELSE /\ pc' = "enriching"
            /\ sortedResults' = Truncate(SortBySeedsDesc(uniqueResults'), limit)
            /\ pendingEnrich' = 1..Len(sortedResults')
            /\ UNCHANGED raisedType
    /\ UNCHANGED <<limit, srcOutcome, pendingSrc, results, enrichFailed,
                   enriched, returned>>
    /\ UNCHANGED <<dedupVars, appVars, cacheVars, otherVars>>

\* lines 680-683: as_completed yields the enrichment of sorted_results[i],
\* which succeeded: the enriched Movie is appended.
EnrichCompletes(i) ==
    /\ pc = "enriching"
    /\ i \in pendingEnrich
    /\ pendingEnrich' = pendingEnrich \ {i}
    /\ enriched' = Append(enriched, WithMetadata(sortedResults[i], MetadataMapping))
    /\ UNCHANGED <<pc, limit, srcOutcome, pendingSrc, results, uniqueResults,
                   sortedResults, enrichFailed, returned, raisedType>>
    /\ UNCHANGED <<dedupVars, appVars, cacheVars, otherVars>>

\* lines 684-685: the enrichment of sorted_results[i] raised: logged only.
EnrichFails(i) ==
    /\ pc = "enriching"
    /\ i \in pendingEnrich
    /\ pendingEnrich' = pendingEnrich \ {i}
    /\ enrichFailed' = enrichFailed \cup {i}
    /\ UNCHANGED <<pc, limit, srcOutcome, pendingSrc, results, uniqueResults,
                   sortedResults, enriched, returned, raisedType>>
    /\ UNCHANGED <<dedupVars, appVars, cacheVars, otherVars>>

\* line 687: return enriched_results.
Return ==
    /\ pc = "enriching"
    /\ AllYielded(pendingEnrich)
    /\ pc' = "done"
    /\ returned' = enriched
    /\ UNCHANGED <<limit, srcOutcome, pendingSrc, results, uniqueResults,
                   sortedResults, pendingEnrich, enrichFailed, enriched,
                   raisedType>>
    /\ UNCHANGED <<dedupVars, appVars, cacheVars, otherVars>>

NextSearch ==
    \/ Dispatch
    \/ \E s \in Sources : SourceCompletes(s)
    \/ MergeSortLimit
    \/ \E i \in 1..Len(sortedResults) : EnrichCompletes(i)
    \/ \E i \in 1..Len(sortedResults) : EnrichFails(i)
    \/ Return

SpecSearch == InitSearch /\ [][NextSearch]_vars

(***************************************************************************)
(* _deduplicate_results as a function of its argument: applied once to a   *)
(* drawn list, then to its own output.  The call extends the torrent list  *)
(* of the first-seen Movie object in place, so the argument's objects      *)
(* change too: ddHeap is the argument list as it reads after the call      *)
(* (the list positions hold distinct Movie objects, as the source tasks    *)
(* build them).                                                            *)
(***************************************************************************)
\* The argument list after the call: the first-seen object of each key is
\* the object the output holds; the later-seen objects are untouched.
ArgumentAfterCall(rs) ==
    LET out == DeduplicateResults(rs)
    IN [i \in 1..Len(rs) |->
           IF \A j \in 1..(i - 1) : DedupKey(rs[j]) # DedupKey(rs[i])
           THEN out[FirstWithKey(out, DedupKey(rs[i]))]
           ELSE rs[i]]

InitDedup ==
    /\ ddPc = "start"
    /\ ddIn \in SeqUpTo(MovieUniverse, MaxLen)
    /\ ddHeap = ddIn
    /\ ddOut = <<>>
    /\ ddOutHeap = <<>>
    /\ ddOut2 = <<>>
    /\ SearchIdle
    /\ AppIdle
    /\ CacheIdle
    /\ OtherIdle

\* unique = _deduplicate_results(L)
DedupFirstPass ==
    /\ ddPc = "start"
    /\ ddPc' = "once"
    /\ ddOut' = DeduplicateResults(ddIn)
    /\ ddHeap' = ArgumentAfterCall(ddIn)
    /\ ddOutHeap' = ddOut'
    /\ UNCHANGED <<ddIn, ddOut2>>
    /\ UNCHANGED <<searchVars, appVars, cacheVars, otherVars>>

\* _deduplicate_results(unique)
DedupSecondPass ==
    /\ ddPc = "once"
    /\ ddPc' = "twice"
    /\ ddOut2' = DeduplicateResults(ddOut)
    /\ ddOutHeap' = ArgumentAfterCall(ddOut)
    /\ UNCHANGED <<ddIn, ddHeap, ddOut>>
    /\ UNCHANGED <<searchVars, appVars, cacheVars, otherVars>>

NextDedup == DedupFirstPass \/ DedupSecondPass

SpecDedup == InitDedup /\ [][NextDedup]_vars

(***************************************************************************)
(* Properties of _deduplicate_results.                                     *)
(***************************************************************************)
KeysOf(rs) == {DedupKey(rs[i]) : i \in 1..Len(rs)}

PositionsOfKey(rs, k) == {i \in 1..Len(rs) : DedupKey(rs[i]) = k}

FirstSeen(rs, k) ==
    CHOOSE i \in PositionsOfKey(rs, k) : \A j \in PositionsOfKey(rs, k) : i <= j

\* The torrent lists of the records of key k, concatenated in seen order.
RECURSIVE TorrentsOfKey(_, _)
TorrentsOfKey(rs, k) ==
    IF rs = <<>> THEN <<>>
    ELSE (IF DedupKey(Head(rs)) = k THEN Head(rs).torrents ELSE <<>>)
         \o TorrentsOfKey(Tail(rs), k)

\* C2: for every key of the input, the output holds exactly one record of
\* that key; its torrent list is the torrent lists of the input's records of
\* that key concatenated in seen order (T1 ++ T2 for two duplicates), and
\* its scalar fields are those of the first-seen record.
C2_MergeIsConcatFirstSeenWins ==
    ddPc \in {"once", "twice"} =>
        \A k \in KeysOf(ddIn) :
            /\ Cardinality(PositionsOfKey(ddOut, k)) = 1
            /\ LET r == ddOut[FirstSeen(ddOut, k)]
                   f == ddIn[FirstSeen(ddIn, k)]
               IN /\ r.torrents = TorrentsOfKey(ddIn, k)
                  /\ r.title = f.title
                  /\ r.year = f.year
                  /\ r.poster_url = f.poster_url
                  /\ r.metadata = f.metadata

\* A pass over three records of one key whose first two differ in a scalar
\* field and in their torrent lists.
C2_Witness ==
    /\ ddPc = "once"
    /\ Len(ddIn) = 3
    /\ Cardinality(KeysOf(ddIn)) = 1
    /\ ddIn[1].poster_url # ddIn[2].poster_url
    /\ ddIn[1].torrents # ddIn[2].torrents
    /\ Len(ddOut) = 1
    /\ Len(ddOut[1].torrents) = 3

\* C3: the second pass over the output of the first returns the same
\* records in the same order, and leaves the records it was given as they
\* were (nothing merged, every torrent count unchanged).
C3_SecondPassIsNoOp ==
    ddPc = "twice" =>
        /\ ddOut2 = ddOut
        /\ ddOutHeap = ddOut
        /\ \A i \in 1..Len(ddOut) :
               Len(ddOut2[i].torrents) = Len(ddOut[i].torrents)

\* Both passes ran on an input whose first pass merged duplicates.
C3_Witness ==
    /\ ddPc = "twice"
    /\ Len(ddOut) < Len(ddIn)
    /\ Len(ddOut) >= 2

(***************************************************************************)
(* Properties of TorrentSearcher.search.                                   *)
(***************************************************************************)
Terminal == pc \in {"done", "raised"}

SomeSourceFailed == \E s \in Sources : srcOutcome[s].kind # "ok"

SomeSourceReturnedRecords ==
    \E s \in Sources : srcOutcome[s].kind = "ok" /\ srcOutcome[s].movies # <<>>

EverySourceFailed == \A s \in Sources : srcOutcome[s].kind # "ok"

\* m is in ms, with or without metadata attached.
Contains(ms, m) ==
    \E j \in 1..Len(ms) : [ms[j] EXCEPT !.metadata = NoMetadata] = m

\* C1: for every completion order of the source tasks and of the
\* enrichment tasks, the returned list is in descending order of the
\* maximum seed count of each Movie's torrents.
C1_ReturnedSortedBySeeds ==
    pc = "done" =>
        \A i, j \in 1..Len(returned) :
            i < j => MaxSeeds(returned[i]) >= MaxSeeds(returned[j])

\* C4: when a deduplicated record has an empty torrent list, the sort step
\* does not raise and the search goes on to return a list.
C4_EmptyTorrentListHandled ==
    (Terminal /\ SortKeyRaises(uniqueResults)) =>
        (pc = "done" /\ raisedType = "none")

\* C5: when some sources raise and at least one returns records, the search
\* returns without raising and the returned list holds every record of the
\* successful sources that survives dedup and limit.
C5_PartialFailureKeepsSiblings ==
    (Terminal /\ SomeSourceFailed /\ SomeSourceReturnedRecords) =>
        /\ pc = "done"
        /\ \A i \in 1..Len(sortedResults) : Contains(returned, sortedResults[i])

\* C6: when every source fails the search raises an error of the most
\* specific type observed (ConnectionBlockedError before the generic search
\* error), and the search raises only when no source returned a result and
\* at least one source raised.
C6_AllFailedRaisesMostSpecific ==
    /\ (Terminal /\ EverySourceFailed) =>
           /\ pc = "raised"
           /\ raisedType =
                  IF \E s \in Sources :
                         srcOutcome[s].kind = "ConnectionBlockedError"
                  THEN "ConnectionBlockedError"
                  ELSE "MovieSearchError"
    /\ pc = "raised" => EverySourceFailed

\* C9: a Movie whose enrichment failed stays in the result: the returned
\* list holds every Movie that survived the limit, so its length is the
\* number of survivors.
C9_EnrichFailureKeepsMovie ==
    pc = "done" =>
        /\ Len(returned) = Len(sortedResults)
        /\ \A i \in 1..Len(sortedResults) : Contains(returned, sortedResults[i])

(***************************************************************************)
(* The single-source search entry point (torrent_search.py,                *)
(* providers/torrent/yts_searcher.py) and the window's search handler      *)
(* (app.py).  A transport outcome is what the HTTP session does with the   *)
(* one request of the search.                                              *)
(***************************************************************************)
Transports ==
    {"ok_movies",          \* 200, data.movies non-empty, no image resolved
     "ok_movies_images",   \* the same, and _get_image_url resolved the covers
     "ok_empty",           \* 200, no data.movies
     "http_error",         \* non-2xx: raise_for_status raises HTTPError
     "connection_error",   \* requests.exceptions.ConnectionError (refused)
     "connection_reset",   \* ConnectionResetError
     "read_timeout",       \* a RequestException that is neither of the above
     "bad_body"}           \* response.json() or a missing field raises

Queries == {"", "up", "heat"}

\* The display names the source combo box can hold: the two sources
\* search_movies supports and one it does not.
DisplayNames == {"YTS.mx", "1337x", "RARBG"}

Returns(ms) ==
    [kind |-> "return", type |-> "none", movies |-> ms]

Raises(t) ==
    [kind |-> "raise", type |-> t, movies |-> <<>>]

\* The except clauses that end _search_yts and _search_leetx_tv.
SourceExceptClauses(t) ==
    CASE t = "http_error" -> Raises("MovieAPIError")
      [] t \in {"connection_error", "connection_reset"} ->
             Raises("ConnectionBlockedError")
      [] OTHER -> Raises("MovieSearchError")

\* _search_yts
SearchYts(t) ==
    CASE t \in {"ok_movies", "ok_movies_images"} -> Returns(<<MovieUp>>)
      [] t = "ok_empty" -> Returns(<<>>)
      [] OTHER -> SourceExceptClauses(t)

\* _search_leetx_tv, as far as its result pages' transport decides it.
SearchLeetxTv(t) ==
    CASE t \in {"ok_movies", "ok_movies_images"} -> Returns(<<MovieHeat>>)
      [] t = "ok_empty" -> Returns(<<>>)
      [] OTHER -> SourceExceptClauses(t)

\* The try body of TorrentSearcher.search_movies: clear_cache, then the
\* searcher of the source.  clearOk is whether every os.remove of
\* clear_cache succeeded.
SearchMoviesBody(name, t, clearOk) ==
    IF ~clearOk THEN Raises("OSError")
    ELSE CASE name = "YTS.mx" -> SearchYts(t)
           [] name = "1337x" -> SearchLeetxTv(t)
           [] OTHER -> Raises("ValueError")

\* except Exception as e: raise MovieSearchError(f"Search failed: {e}")
WrapAsSearchError(r) ==
    IF r.kind = "raise" THEN Raises("MovieSearchError") ELSE r

\* TorrentSearcher.search_movies
SearchMovies(name, t, clearOk) ==
    WrapAsSearchError(SearchMoviesBody(name, t, clearOk))

\* YTSSearcher.search_movies
YtsSearcherSearchMovies(t, clearOk) ==
    WrapAsSearchError(IF clearOk THEN SearchYts(t) ELSE Raises("OSError"))

\* Whether the source's request was sent at all.
RequestSent(name, clearOk) == clearOk /\ name \in {"YTS.mx", "1337x"}

\* _request_cache after clear_cache and the search: _make_request keeps a
\* 200 response under f"{method}:{url}:{query_term}" (with its timestamp),
\* _get_image_url keeps each resolved url under f"image_redirect:{url}".
\* Only _search_yts goes through them.
RequestCacheAfter(name, q, t, clearOk) ==
    IF RequestSent(name, clearOk) /\ name = "YTS.mx"
    THEN (IF t \in {"ok_movies", "ok_movies_images", "ok_empty", "bad_body"}
          THEN {<<"GET", name, q>>} ELSE {})
         \cup (IF t = "ok_movies_images"
               THEN {<<"image_redirect", name, q>>} ELSE {})
    ELSE {}

CallRecord(name, t, clearOk, body, out) ==
    [source |-> name,
     transport |-> IF RequestSent(name, clearOk) THEN t ELSE "none",
     inner |-> body.type,
     raised |-> out.type,
     movies |-> out.movies]

VpnMessage == "Connection blocked. Please ensure your VPN is enabled and try again."
UnexpectedMessage == "An unexpected error occurred. Please try again later."
EnterTitleMessage == "Please enter a movie title"

\* _show_error
ShowError(msg) == [error |-> msg, noResults |-> FALSE, details |-> FALSE]
\* _show_no_results, after the _clear_results of the handler's start
ShowNoResults == [error |-> "", noResults |-> TRUE, details |-> FALSE]
\* _display_movies
ShowMovies == [error |-> "", noResults |-> FALSE, details |-> TRUE]

\* The condition one search ended in: what the source did underneath.
Condition(body) ==
    CASE body.kind = "raise" /\ body.type = "ConnectionBlockedError" -> "blocked"
      [] body.kind = "raise" -> "failed"
      [] body.movies = <<>> -> "empty"
      [] OTHER -> "found"

\* The except clause of _perform_search (lines 290-292).
RenderSearchFailure(out) == ShowError(UnexpectedMessage)

\* What _perform_search leaves on screen for a search_movies outcome.
RenderOutcome(out, accepted) ==
    IF out.kind = "raise" THEN RenderSearchFailure(out)
    ELSE IF out.movies = <<>> THEN ShowNoResults
    ELSE IF accepted THEN ShowMovies
    ELSE Hidden

InitApp ==
    /\ uiQuery = ""
    /\ uiSource = "YTS.mx"
    /\ rendered = Hidden
    /\ requestCache = {}
    /\ lastCall = NoCall
    /\ ytsCall = NoCall
    /\ outcomesSeen = {}
    /\ SearchIdle
    /\ DedupIdle
    /\ CacheIdle
    /\ OtherIdle

EditQuery(q) ==
    /\ uiQuery # q
    /\ uiQuery' = q
    /\ UNCHANGED <<uiSource, rendered, requestCache, lastCall, ytsCall,
                   outcomesSeen>>
    /\ UNCHANGED <<searchVars, dedupVars, cacheVars, otherVars>>

SelectSource(name) ==
    /\ uiSource # name
    /\ uiSource' = name
    /\ UNCHANGED <<uiQuery, rendered, requestCache, lastCall, ytsCall,
                   outcomesSeen>>
    /\ UNCHANGED <<searchVars, dedupVars, cacheVars, otherVars>>

\* MovieSearchApp._perform_search, lines 236-292.
PerformSearch(t, clearOk, accepted) ==
    /\ IF uiQuery = ""
       THEN /\ rendered' = ShowError(EnterTitleMessage)
            /\ UNCHANGED <<requestCache, lastCall, outcomesSeen>>
       ELSE LET body == SearchMoviesBody(uiSource, t, clearOk)
                out == SearchMovies(uiSource, t, clearOk)
            IN /\ rendered' = RenderOutcome(out, accepted)
               /\ requestCache' = RequestCacheAfter(uiSource, uiQuery, t, clearOk)
               /\ lastCall' = CallRecord(uiSource, t, clearOk, body, out)
               /\ outcomesSeen' =
                      IF Condition(body) = "found" THEN outcomesSeen
                      ELSE outcomesSeen \cup {<<Condition(body), rendered'>>}
    /\ UNCHANGED <<uiQuery, uiSource, ytsCall>>
    /\ UNCHANGED <<searchVars, dedupVars, cacheVars, otherVars>>

\* A caller of YTSSearcher.search_movies (search_handler.TorrentSearcher).
YtsSearch(t, clearOk) ==
    /\ ytsCall' = CallRecord("YTS.mx", t, clearOk,
                             IF clearOk THEN SearchYts(t) ELSE Raises("OSError"),
                             YtsSearcherSearchMovies(t, clearOk))
    /\ ytsCall' # ytsCall
    /\ UNCHANGED <<uiQuery, uiSource, rendered, requestCache, lastCall,
                   outcomesSeen>>
    /\ UNCHANGED <<searchVars, dedupVars, cacheVars, otherVars>>

NextApp ==
    \/ \E q \in Queries : EditQuery(q)
    \/ \E n \in DisplayNames : SelectSource(n)
    \/ \E t \in Transports, clearOk \in BOOLEAN, accepted \in BOOLEAN :
           PerformSearch(t, clearOk, accepted)
    \/ \E t \in Transports, clearOk \in BOOLEAN : YtsSearch(t, clearOk)

SpecApp == InitApp /\ [][NextApp]_vars

(***************************************************************************)
(* Properties of the search entry point and the handler.                   *)
(***************************************************************************)
ConnectionFailures == {"connection_error", "connection_reset"}

\* C7: when the typed-API source's transport raises a connection
\* refused/reset condition, the public search entry point raises
\* ConnectionBlockedError to its caller.
C7_BlockedReachesCaller ==
    /\ (lastCall.source = "YTS.mx" /\ lastCall.transport \in ConnectionFailures)
           => lastCall.raised = "ConnectionBlockedError"
    /\ ytsCall.transport \in ConnectionFailures
           => ytsCall.raised = "ConnectionBlockedError"

\* C8: a connection-blocked failure is rendered with the network/VPN
\* message, and no rendered state stands for two of the three conditions
\* blocked, failed and empty.
C8_OutcomesNeverConflated ==
    /\ \A p \in outcomesSeen : p[1] = "blocked" => p[2] = ShowError(VpnMessage)
    /\ \A p, q \in outcomesSeen : p[2] = q[2] => p[1] = q[1]

(***************************************************************************)
(* utils/chaching.py: the file cache.  A key is a string, here a sequence  *)
(* of characters; time is counted in minutes.                              *)
(***************************************************************************)
MaxTime == 7

\* timedelta(minutes=5)
CacheDuration == 5

\* Keys as the searcher builds them, f"torrent_details_{url}", cut down to
\* the part of the url that differs: t/12/3, t/1/23 and t/4.
KeyA == <<"t", "/", "1", "2", "/", "3">>
KeyB == <<"t", "/", "1", "/", "2", "3">>
KeyC == <<"t", "/", "4">>

Keys == {KeyA, KeyB, KeyC}

\* c.isalnum() or c in ('-', '_')
IsSafeChar(c) == c \in {"t", "1", "2", "3", "4", "-", "_"}

\* _get_cache_path: the characters of the key that are safe, in order
\* (the directory and the .json suffix are the same for every key).
CachePath(key) == SelectSeq(key, IsSafeChar)

Paths == {CachePath(k) : k \in Keys}

\* What set is given: two JSON-native payloads, which json.dump and
\* json.load carry unchanged, and one object json.dump cannot serialize.
Payloads == {"details_a", "details_b"}
NotSerializable == "set_obj"

None == "None"          \* get's None; no set yet

\* A path holds no file, a file json.load cannot read, or an entry.
Absent == [kind |-> "absent", timestamp |-> 0, data |-> None]
Corrupt == [kind |-> "corrupt", timestamp |-> 0, data |-> None]

Entry(ts, data) == [kind |-> "entry", timestamp |-> ts, data |-> data]

IsEntry(f) == f.kind = "entry"

\* datetime.now() - cached_time > self.cache_duration
Expired(f, t) == t - f.timestamp > CacheDuration

\* The file a set leaves: the entry, or, when json.dump raises part-way
\* through the file it has just truncated, an unreadable remainder.
WrittenFile(data, t) ==
    IF data = NotSerializable THEN Corrupt ELSE Entry(t, data)

\* What get returns for the file it finds.
GetResult(f, t) ==
    IF ~IsEntry(f) THEN None
    ELSE IF Expired(f, t) THEN None
    ELSE f.data

\* The file get leaves behind: an expired entry is removed.
FileAfterGet(f, t) ==
    IF IsEntry(f) /\ Expired(f, t) THEN Absent ELSE f

NoGet == [key |-> <<>>, result |-> None, found |-> "absent", age |-> 0]

InitCache ==
    /\ files = [p \in Paths |-> Absent]
    /\ now = 0
    /\ lastSet = [k \in Keys |-> None]
    /\ lastGet = NoGet
    /\ SearchIdle
    /\ DedupIdle
    /\ AppIdle
    /\ OtherIdle

\* Cache.set(key, data)
CacheSet(key, data) ==
    /\ files' = [files EXCEPT ![CachePath(key)] = WrittenFile(data, now)]
    /\ lastSet' = [lastSet EXCEPT ![key] = data]
    /\ lastGet' = NoGet
    /\ UNCHANGED now
    /\ UNCHANGED <<searchVars, dedupVars, appVars, otherVars>>

\* Cache.get(key)
CacheGet(key) ==
    LET f == files[CachePath(key)]
    IN /\ files' = [files EXCEPT ![CachePath(key)] = FileAfterGet(f, now)]
       /\ lastGet' = [key |-> key,
                      result |-> GetResult(f, now),
                      found |-> f.kind,
                      age |-> IF IsEntry(f) THEN now - f.timestamp ELSE 0]
       /\ UNCHANGED <<now, lastSet>>
       /\ UNCHANGED <<searchVars, dedupVars, appVars, otherVars>>

\* Cache.clear()
CacheClear ==
    /\ \E p \in Paths : files[p] # Absent
    /\ files' = [p \in Paths |-> Absent]
    /\ lastGet' = NoGet
    /\ UNCHANGED <<now, lastSet>>
    /\ UNCHANGED <<searchVars, dedupVars, appVars, otherVars>>

\* A minute passes.
Tick ==
    /\ now < MaxTime
    /\ now' = now + 1
    /\ lastGet' = NoGet
    /\ UNCHANGED <<files, lastSet>>
    /\ UNCHANGED <<searchVars, dedupVars, appVars, otherVars>>

NextCache ==
    \/ \E k \in Keys, d \in Payloads \cup {NotSerializable} : CacheSet(k, d)
    \/ \E k \in Keys : CacheGet(k)
    \/ CacheClear
    \/ Tick

SpecCache == InitCache /\ [][NextCache]_vars

(***************************************************************************)
(* Properties of the file cache.                                           *)
(***************************************************************************)
\* C10: a get that finds the key's entry within the TTL returns the value
\* last set for that key; a get that finds it older than the TTL returns
\* absent and leaves no backing file; a get that finds no entry returns
\* absent.
C10_TtlGetReturnsLastSet ==
    lastGet # NoGet =>
        /\ (lastGet.found = "entry" /\ lastGet.age <= CacheDuration)
               => lastGet.result = lastSet[lastGet.key]
        /\ (lastGet.found = "entry" /\ lastGet.age > CacheDuration)
               => /\ lastGet.result = None
                  /\ files[CachePath(lastGet.key)] = Absent
        /\ lastGet.found = "absent" => lastGet.result = None

(***************************************************************************)
(* One searcher across its top-level searches: clear_cache, the            *)
(* in-memory _request_cache behind _make_request and _get_image_url, and   *)
(* the cache directory behind _get_torrent_details.  Every cache entry is  *)
(* tagged with the number of the search during which it was written.       *)
(***************************************************************************)
MaxSearches == 3

SessionSources == {"YTS.mx", "1337x"}
SessionQueries == {"up", "heat"}

\* cache_key = f"{method}:{url}:{query_term}"
ApiKey(q) == "GET:api:" \o q
\* cache_key = f"image_redirect:{url}"
ImageKey == "image_redirect:cover"
\* cache_key = f"torrent_details_{url}"
DetailKeys == {"torrent_details_a", "torrent_details_b"}

KeysIn(c) == {e[1] : e \in c}

EntryOf(c, k) == CHOOSE e \in c : e[1] = k

Store(c, k, n) == {e \in c : e[1] # k} \cup {<<k, n>>}

Drop(c, k) == {e \in c : e[1] # k}

\* A clear_cache that leaves the request cache as it was.
KeptRequestCache(rc) == rc

\* self._request_cache.clear()
ClearedRequestCache(rc) == {}

\* The os.remove loop of clear_cache: every file removed, or an os.remove
\* raised and the files not yet reached are still there.
DirsAfterClear(dir, clearOk) ==
    IF clearOk THEN {{}} ELSE SUBSET dir

\* What a cache lookup did: the search that wrote the entry it served.
Miss == [hit |-> FALSE, written |-> 0]
Hit(n) == [hit |-> TRUE, written |-> n]

\* _make_request: a cached response that has not expired is returned
\* without a request; otherwise the request is made and a 200 is stored.
MakeRequest(rc, k, expired, status, n) ==
    IF k \in KeysIn(rc) /\ ~expired
    THEN [cache |-> rc, lookup |-> Hit(EntryOf(rc, k)[2])]
    ELSE [cache |-> IF status = 200 THEN Store(rc, k, n) ELSE Drop(rc, k),
          lookup |-> Miss]

\* _get_image_url: a cached final url is returned; otherwise the HEAD
\* request is made and, unless it raises, its final url is stored.
GetImageUrl(rc, k, headOk, n) ==
    IF k \in KeysIn(rc)
    THEN [cache |-> rc, lookup |-> Hit(EntryOf(rc, k)[2])]
    ELSE [cache |-> IF headOk THEN Store(rc, k, n) ELSE rc, lookup |-> Miss]

\* _get_torrent_details: Cache.get, and on a miss the page fetch and
\* Cache.set (an expired entry is removed by get and counts as a miss).
GetTorrentDetails(dir, k, expired, fetchOk, n) ==
    IF k \in KeysIn(dir) /\ ~expired
    THEN [cache |-> dir, lookup |-> Hit(EntryOf(dir, k)[2])]
    ELSE [cache |-> IF fetchOk THEN Store(dir, k, n) ELSE Drop(dir, k),
          lookup |-> Miss]

Served(lookup, n) == IF lookup.hit THEN {<<lookup.written, n>>} ELSE {}

InitSession ==
    /\ sPc = "idle"
    /\ sEpoch = 0
    /\ sCall = NoSearchCall
    /\ sReqCache = {}
    /\ sDir = {}
    /\ sAtFirst = NoSnapshot
    /\ sServed = {}
    /\ CoreIdle
    /\ IdleExcept("Session")

\* search_movies / search_tv_series up to the end of clear_cache.  When an
\* os.remove raises, the search raises before any request is made.
BeginSearch(src, q, clearOk) ==
    /\ sPc = "idle"
    /\ sEpoch < MaxSearches
    /\ sEpoch' = sEpoch + 1
    /\ sReqCache' = ClearedRequestCache(sReqCache)
    /\ \E d \in DirsAfterClear(sDir, clearOk) : sDir' = d
    /\ sAtFirst' = [NoSnapshot EXCEPT !.reqBefore = KeysIn(sReqCache),
                                      !.dirBefore = KeysIn(sDir)]
    /\ IF clearOk
       THEN /\ sPc' = "cleared"
            /\ sCall' = [source |-> src, query |-> q]
       ELSE /\ sPc' = "idle"
            /\ sCall' = NoSearchCall
    /\ UNCHANGED sServed
    /\ SessionFrame

\* The first network request of the search: _make_request of the API url
\* (_search_yts), or session.get of the first result page (_search_leetx_tv),
\* which does not go through the request cache.
FirstRequest(expired, status) ==
    /\ sPc = "cleared"
    /\ sPc' = "running"
    /\ sAtFirst' = [sAtFirst EXCEPT !.taken = TRUE,
                                    !.req = KeysIn(sReqCache),
                                    !.dir = KeysIn(sDir)]
    /\ IF sCall.source = "YTS.mx"
       THEN LET r == MakeRequest(sReqCache, ApiKey(sCall.query), expired,
                                 status, sEpoch)
            IN /\ sReqCache' = r.cache
               /\ sServed' = sServed \cup Served(r.lookup, sEpoch)
       ELSE UNCHANGED <<sReqCache, sServed>>
    /\ UNCHANGED <<sEpoch, sCall, sDir>>
    /\ SessionFrame

\* _get_image_url of a cover of a movie of the response (_search_yts).
ImageLookup(headOk) ==
    /\ sPc = "running"
    /\ sCall.source = "YTS.mx"
    /\ LET r == GetImageUrl(sReqCache, ImageKey, headOk, sEpoch)
       IN /\ sReqCache' = r.cache
          /\ sServed' = sServed \cup Served(r.lookup, sEpoch)
    /\ UNCHANGED <<sPc, sEpoch, sCall, sDir, sAtFirst>>
    /\ SessionFrame

\* _get_torrent_details(url), which no search calls: it runs whenever its
\* caller wants, during a search or between two (an entry written between
\* two searches counts as written during the earlier one).
DetailLookup(k, expired, fetchOk) ==
    /\ sPc \in {"idle", "running"}
    /\ sEpoch >= 1
    /\ LET r == GetTorrentDetails(sDir, k, expired, fetchOk, sEpoch)
       IN /\ sDir' = r.cache
          /\ sServed' = IF sPc = "running"
                        THEN sServed \cup Served(r.lookup, sEpoch)
                        ELSE sServed
    /\ UNCHANGED <<sPc, sEpoch, sCall, sReqCache, sAtFirst>>
    /\ SessionFrame

\* The search returns or raises.
EndSearch ==
    /\ sPc = "running"
    /\ sPc' = "idle"
    /\ sCall' = NoSearchCall
    /\ UNCHANGED <<sEpoch, sReqCache, sDir, sAtFirst, sServed>>
    /\ SessionFrame

NextSession ==
    \/ \E src \in SessionSources, q \in SessionQueries, clearOk \in BOOLEAN :
           BeginSearch(src, q, clearOk)
    \/ \E expired \in BOOLEAN, status \in {200, 500} :
           FirstRequest(expired, status)
    \/ \E headOk \in BOOLEAN : ImageLookup(headOk)
    \/ \E k \in DetailKeys, expired \in BOOLEAN, fetchOk \in BOOLEAN :
           DetailLookup(k, expired, fetchOk)
    \/ EndSearch

SpecSession == InitSession /\ [][NextSession]_vars

(***************************************************************************)
(* Properties of the searcher's caches across searches.                    *)
(***************************************************************************)
\* C11: no entry of the request cache or of the cache directory written
\* during an earlier search is served during a later one, and both are
\* empty when the first network request of a search is issued.
C11_NothingServedAcrossSearches ==
    /\ \A h \in sServed : h[1] = h[2]
    /\ sAtFirst.taken => (sAtFirst.req = {} /\ sAtFirst.dir = {})

\* The first request of a later search, begun with entries of an earlier
\* search in both caches, after a hit had been served.
C11_Witness ==
    /\ sEpoch >= 2
    /\ sAtFirst.taken
    /\ sAtFirst.reqBefore # {}
    /\ sAtFirst.dirBefore # {}
    /\ sServed # {}

(***************************************************************************)
(* Cache storage failures at the search entry point.                       *)
(***************************************************************************)
\* C12: a failure of a cache storage operation is never propagated to the
\* caller of the search: a search whose clear_cache met a failing file
\* removal raises nothing to its caller.
C12_CacheFailureNotPropagated ==
    /\ lastCall.inner = "OSError" => lastCall.raised = "none"
    /\ ytsCall.inner = "OSError" => ytsCall.raised = "none"

(***************************************************************************)
(* Storage locations of distinct cache keys.                               *)
(***************************************************************************)
\* C13: writes of distinct keys go to disjoint storage locations: whatever
\* sets of other keys have run, in any order, an unexpired get of a key
\* returns the value last set for that key, or absent.
C13_DistinctKeysDisjointStorage ==
    \A k \in Keys :
        LET r == GetResult(files[CachePath(k)], now)
        IN (r # None /\ lastSet[k] # NotSerializable) => r = lastSet[k]

(***************************************************************************)
(* utils/http_client.py: make_api_request.  One call; what the remote end  *)
(* does with each session.get is drawn when the attempt is made.           *)
(***************************************************************************)
\* retries = 3
Retries == 3

\* What a session.get can end in: a response of one of the status classes,
\* or a RequestException raised in transit.
AttemptOutcomes == {"2xx", "3xx", "4xx", "5xx", "timeout", "connection_error"}

\* response.raise_for_status() raises HTTPError for 400..599.
RaiseForStatusRaises(o) == o \in {"4xx", "5xx"}

\* The try body raised a RequestException.
AttemptFailed(o) == o \in {"timeout", "connection_error"} \/ RaiseForStatusRaises(o)

\* The headers used by the resilient attempts: headers or the browser-like
\* defaults.
EffectiveHeaders(h) == IF h = "none" THEN "browser_defaults" ELSE h

RECURSIVE Pow2(_)
Pow2(n) == IF n = 0 THEN 1 ELSE 2 * Pow2(n - 1)

\* session.get(api_url, params=params, timeout=1, allow_redirects=False)
FastGet(o) ==
    [path |-> "fast", timeout |-> 1, redirects |-> FALSE, headers |-> "none",
     slept |-> 0, outcome |-> o]

\* time.sleep(backoff_factor * (2 ** attempt)), in units of backoff_factor,
\* then session.get(..., headers=headers, timeout=10, allow_redirects=True)
ResilientGet(attempt, h, o) ==
    [path |-> "resilient", timeout |-> 10, redirects |-> TRUE,
     headers |-> EffectiveHeaders(h), slept |-> Pow2(attempt), outcome |-> o]

\* A handler that gives up after the first resilient attempt.
IsSecondAttempt(attempt) == attempt >= 1

\* if attempt == retries - 1: raise
IsLastAttempt(attempt) == attempt = Retries - 1

InitHttp ==
    /\ hPc = "calling"
    /\ hHeaders \in {"none", "custom"}
    /\ hAttempt = 0
    /\ hLog = <<>>
    /\ CoreIdle
    /\ IdleExcept("Http")

\* The end of one pass through the loop body whose session.get ended in o:
\* return response, or the except clause (raise on the last attempt,
\* otherwise log and continue).
AfterAttempt(o) ==
    IF ~AttemptFailed(o)
    THEN /\ hPc' = "returned"
         /\ UNCHANGED hAttempt
    ELSE IF IsLastAttempt(hAttempt)
         THEN /\ hPc' = "raised"
              /\ UNCHANGED hAttempt
         ELSE /\ hPc' = "calling"
              /\ hAttempt' = hAttempt + 1

\* attempt == 0: the fast attempt
FastAttempt(o) ==
    /\ hPc = "calling"
    /\ hAttempt < Retries
    /\ hAttempt = 0
    /\ hLog' = Append(hLog, FastGet(o))
    /\ AfterAttempt(o)
    /\ UNCHANGED hHeaders
    /\ HttpFrame

\* attempt >= 1: the more robust attempt
ResilientAttempt(o) ==
    /\ hPc = "calling"
    /\ hAttempt < Retries
    /\ hAttempt # 0
    /\ hLog' = Append(hLog, ResilientGet(hAttempt, hHeaders, o))
    /\ AfterAttempt(o)
    /\ UNCHANGED hHeaders
    /\ HttpFrame

NextHttp ==
    \/ \E o \in AttemptOutcomes : FastAttempt(o)
    \/ \E o \in AttemptOutcomes : ResilientAttempt(o)

SpecHttp == InitHttp /\ [][NextHttp]_vars

(***************************************************************************)
(* Properties of make_api_request.                                         *)
(***************************************************************************)
\* C14: at most 3 attempts per call, the first on the fast path and the
\* later ones on the resilient path; no attempt follows a successful one and
\* the call returns on it; a failed attempt that is not the third is
\* followed by another attempt; the call raises only after the third
\* attempt has failed.
C14_AtMostThreeAttempts ==
    /\ Len(hLog) <= 3
    /\ \A i \in 1..Len(hLog) :
           hLog[i].path = (IF i = 1 THEN "fast" ELSE "resilient")
    /\ \A i \in 1..(Len(hLog) - 1) : AttemptFailed(hLog[i].outcome)
    /\ (hLog # <<>> /\ ~AttemptFailed(hLog[Len(hLog)].outcome))
           => hPc = "returned"
    /\ hPc = "returned" => ~AttemptFailed(hLog[Len(hLog)].outcome)
    /\ (hLog # <<>> /\ AttemptFailed(hLog[Len(hLog)].outcome) /\ Len(hLog) < 3)
           => hPc = "calling"
    /\ hPc = "raised" =>
           /\ Len(hLog) = 3
           /\ \A i \in 1..3 : AttemptFailed(hLog[i].outcome)

\* A call that raised: the fast attempt and two resilient attempts failed.
C14_Witness ==
    /\ hPc = "raised"
    /\ Len(hLog) = 3
    /\ hLog[1].path = "fast"
    /\ hLog[3].path = "resilient"
    /\ hLog[3].slept = 4

(***************************************************************************)
(* MetadataManager.get_metadata (legacy/torrent_search copy 2.py): one     *)
(* call.  What each registered source's get_metadata does (return a dict   *)
(* or raise) is fixed when the call starts; the order in which             *)
(* as_completed yields the futures is not.                                 *)
(***************************************************************************)
MaxRequested == 3

\* self.sources: the managers' registered sources, by name.
RegisteredSources == {"tmdb", "imdb", "metacritic"}

\* The names a caller may pass: the registered ones and one that is not.
RequestableNames == RegisteredSources \cup {"omdb"}

InfoOf(n) == [kind |-> "info", value |-> n]
RaisedBy(msg) == [kind |-> "raise", value |-> msg]

AdapterOutcomes(n) == {InfoOf(n), RaisedBy("timed out")}

\* sources = list(self.sources.keys()) when sources is None
RegisteredList == <<"tmdb", "imdb", "metacritic">>

EffectiveSources(req) == IF req.given THEN req.names ELSE RegisteredList

\* ThreadPoolExecutor(max_workers=0) raises ValueError.
ExecutorRaises(req) == Len(EffectiveSources(req)) = 0

\* for source_name in sources if source_name in self.sources
TaskPositions(req) ==
    {i \in 1..Len(EffectiveSources(req)) :
         EffectiveSources(req)[i] \in RegisteredSources}

\* future.result(), or {'error': str(e)} when it raises
RecordedEntry(o) ==
    IF o.kind = "raise" THEN [kind |-> "error", value |-> o.value] ELSE o

\* A dict rebuilt from the one entry on each assignment.
PutAlone(md, n, e) == [x \in {n} |-> e]

\* metadata[source_name] = ...
Put(md, n, e) == [x \in DOMAIN md \cup {n} |-> IF x = n THEN e ELSE md[x]]

InitMeta ==
    /\ mPc = "called"
    /\ mRequest \in {NoRequest}
           \cup {[given |-> TRUE, names |-> ns] :
                     ns \in SeqUpTo(RequestableNames, MaxRequested)}
    /\ mOutcome \in {f \in [RegisteredSources -> UNION {AdapterOutcomes(n) :
                                                  n \in RegisteredSources}] :
                         \A n \in RegisteredSources : f[n] \in AdapterOutcomes(n)}
    /\ mTasks = {}
    /\ mPending = {}
    /\ mDone = <<>>
    /\ mMetadata = <<>>
    /\ CoreIdle
    /\ IdleExcept("Meta")

\* lines 466-475: the executor is created and one task is submitted per
\* listed name that is registered.
SubmitTasks ==
    /\ mPc = "called"
    /\ IF ExecutorRaises(mRequest)
       THEN /\ mPc' = "raised"
            /\ UNCHANGED <<mTasks, mPending>>
       ELSE /\ mPc' = "gathering"
            /\ mTasks' = TaskPositions(mRequest)
            /\ mPending' = TaskPositions(mRequest)
    /\ UNCHANGED <<mRequest, mOutcome, mDone, mMetadata>>
    /\ MetaFrame

\* lines 477-483: as_completed yields future i; its result, or the error
\* record of its exception, is stored under its source's name.
TaskCompletes(i) ==
    /\ mPc = "gathering"
    /\ i \in mPending
    /\ mPending' = mPending \ {i}
    /\ mDone' = Append(mDone, i)
    /\ LET n == EffectiveSources(mRequest)[i]
       IN mMetadata' = Put(mMetadata, n, RecordedEntry(mOutcome[n]))
    /\ UNCHANGED <<mPc, mRequest, mOutcome, mTasks>>
    /\ MetaFrame

\* line 485: return metadata
ReturnMetadata ==
    /\ mPc = "gathering"
    /\ mPending = {}
    /\ mPc' = "returned"
    /\ UNCHANGED <<mRequest, mOutcome, mTasks, mPending, mDone, mMetadata>>
    /\ MetaFrame

NextMeta ==
    \/ SubmitTasks
    \/ \E i \in 1..MaxRequested : TaskCompletes(i)
    \/ ReturnMetadata

SpecMeta == InitMeta /\ [][NextMeta]_vars

(***************************************************************************)
(* Properties of MetadataManager.get_metadata.                             *)
(***************************************************************************)
RequestedKnown ==
    {EffectiveSources(mRequest)[i] : i \in TaskPositions(mRequest)}

\* C15: every requested registered source gets a task, all submitted
\* before any result is gathered and within the pool's worker count; a
\* task's exception is recorded as the error entry of its source and no
\* task's exception makes the call raise or drops another source's entry;
\* the returned mapping depends on the adapters' outcomes only, not on the
\* completion order.
C15_FailuresRecordedOrderIrrelevant ==
    /\ mPc \in {"gathering", "returned"} =>
           /\ {EffectiveSources(mRequest)[i] : i \in mTasks} = RequestedKnown
           /\ Cardinality(mTasks) <= Len(EffectiveSources(mRequest))
    /\ mPc = "returned" =>
           /\ DOMAIN mMetadata = RequestedKnown
           /\ \A n \in RequestedKnown :
                  mMetadata[n] =
                      IF mOutcome[n].kind = "raise"
                      THEN [kind |-> "error", value |-> mOutcome[n].value]
                      ELSE mOutcome[n]
    /\ mPc = "raised" => Len(EffectiveSources(mRequest)) = 0

\* A call that returned after the task of a failing source completed first
\* and the task of a succeeding source after it.
C15_Witness ==
    /\ mPc = "returned"
    /\ Len(mDone) >= 2
    /\ mOutcome[EffectiveSources(mRequest)[mDone[1]]].kind = "raise"
    /\ mOutcome[EffectiveSources(mRequest)[mDone[2]]].kind = "info"
    /\ mDone[1] > mDone[2]

(***************************************************************************)
(* providers/metadata: MetacriticSource and RottenTomatoesSource.  One     *)
(* get_url(title, year) call followed by get_info of the url it returned.  *)
(* The cleaned title is written t and the year y; a dict is a function     *)
(* from its keys to "none" (None), "empty" ('' or []) or "value".          *)
(***************************************************************************)
Adapters == {"metacritic", "rottentomatoes"}

\* url_patterns
Candidates(a) ==
    IF a = "metacritic"
    THEN <<"metacritic.com/movie/t/", "metacritic.com/tv/t/",
           "metacritic.com/movie/t-y/", "metacritic.com/tv/t-y/">>
    ELSE <<"rottentomatoes.com/m/t_y", "rottentomatoes.com/m/t",
           "rottentomatoes.com/tv/t_y", "rottentomatoes.com/tv/t">>

\* What requests.head can do: answer 200, answer another status, or raise
\* a RequestException.
ProbeOutcomes == {"200", "404", "raise"}

\* A probe that takes any answer for a valid url.
ProbeAnswered(o) == o # "raise"

\* if response.status_code == 200
ProbeOk(o) == o = "200"

\* _get_empty_info
EmptyInfo(a) ==
    IF a = "metacritic"
    THEN [k \in {"score", "user_score", "critic_reviews", "user_reviews",
                 "summary", "release_date", "rating", "genre", "developer",
                 "publisher", "cast", "director", "runtime", "error"}
              |-> IF k \in {"score", "user_score", "release_date", "error"}
                  THEN "none" ELSE "empty"]
    ELSE [k \in {"tomatometer_score", "popcornmeter_score",
                 "critics_consensus", "critic_reviews", "audience_reviews",
                 "rating", "genre", "description", "director", "producer",
                 "screenwriter", "cast", "runtime", "release_date", "error"}
              |-> IF k = "error" THEN "none" ELSE "empty"]

\* The elements a fetched page may hold, as far as they are modelled: each
\* of the other elements the adapters look for behaves like one of these.
PageElements(a) ==
    IF a = "metacritic"
    THEN {"h1", "description", "one_director", "genre_list"}
    ELSE {"score_board", "synopsis", "director", "rating"}

\* What the page request of get_info can end in: a page holding some of the
\* elements, an error status, or an exception in transit.
FetchOutcomes(a) ==
    {[kind |-> "page", elements |-> es] : es \in SUBSET PageElements(a)}
    \cup {[kind |-> "http_error", elements |-> {}],
          [kind |-> "timeout", elements |-> {}]}

\* get_metacritic_info on a page: a key per element found, and cast.
MetacriticPageInfo(es) ==
    [k \in {"cast"}
           \cup (IF "h1" \in es THEN {"title"} ELSE {})
           \cup (IF "description" \in es THEN {"description"} ELSE {})
           \cup (IF "one_director" \in es THEN {"director"} ELSE {})
           \cup (IF "genre_list" \in es THEN {"genres"} ELSE {})
         |-> IF k = "cast" THEN "empty" ELSE "value"]

\* The dict RottenTomatoesSource.get_info builds from a page.
RottenTomatoesPageInfo(es) ==
    [k \in DOMAIN EmptyInfo("rottentomatoes") |->
         CASE k = "error" -> "none"
           [] k \in {"tomatometer_score", "popcornmeter_score"} ->
                  IF "score_board" \in es THEN "value" ELSE "empty"
           [] k = "description" ->
                  IF "synopsis" \in es THEN "value" ELSE "empty"
           [] k = "director" ->
                  IF "director" \in es THEN "value" ELSE "empty"
           [] k = "rating" ->
                  IF "rating" \in es THEN "value" ELSE "empty"
           [] OTHER -> "empty"]

Dict(d) == [none |-> FALSE, dict |-> d]

\* get_info(url)
GetInfo(a, url, fetch) ==
    IF url = "" THEN Dict(EmptyInfo(a))
    ELSE IF fetch.kind # "page" THEN Dict(EmptyInfo(a))
    ELSE IF a = "metacritic" THEN Dict(MetacriticPageInfo(fetch.elements))
    ELSE Dict(RottenTomatoesPageInfo(fetch.elements))

InitAdapter ==
    /\ aPc = "probing"
    /\ aAdapter \in Adapters
    /\ aProbe \in [1..Len(Candidates(aAdapter)) -> ProbeOutcomes]
    /\ aProbed = <<>>
    /\ aUrl = ""
    /\ aFetch = "none"
    /\ aInfo = NoInfo
    /\ CoreIdle
    /\ IdleExcept("Adapter")

\* One pass of "for url in url_patterns": the HEAD request of the next
\* candidate; a 200 returns the candidate, anything else goes on.
ProbeNext ==
    /\ aPc = "probing"
    /\ Len(aProbed) < Len(Candidates(aAdapter))
    /\ LET i == Len(aProbed) + 1
       IN /\ aProbed' = Append(aProbed, i)
          /\ IF ProbeOk(aProbe[i])
             THEN /\ aPc' = "url_returned"
                  /\ aUrl' = Candidates(aAdapter)[i]
             ELSE UNCHANGED <<aPc, aUrl>>
    /\ UNCHANGED <<aAdapter, aProbe, aFetch, aInfo>>
    /\ AdapterFrame

\* The loop ran out of candidates: return "".
NoValidUrl ==
    /\ aPc = "probing"
    /\ Len(aProbed) = Len(Candidates(aAdapter))
    /\ aPc' = "url_returned"
    /\ aUrl' = ""
    /\ UNCHANGED <<aAdapter, aProbe, aProbed, aFetch, aInfo>>
    /\ AdapterFrame

\* get_info of the url get_url returned.
CallGetInfo(fetch) ==
    /\ aPc = "url_returned"
    /\ aPc' = "info_returned"
    /\ aFetch' = IF aUrl = "" THEN "none" ELSE fetch.kind
    /\ aInfo' = GetInfo(aAdapter, aUrl, fetch)
    /\ UNCHANGED <<aAdapter, aProbe, aProbed, aUrl>>
    /\ AdapterFrame

NextAdapter ==
    \/ ProbeNext
    \/ NoValidUrl
    \/ \E fetch \in FetchOutcomes(aAdapter) : CallGetInfo(fetch)

SpecAdapter == InitAdapter /\ [][NextAdapter]_vars

(***************************************************************************)
(* Properties of the metadata adapters.                                    *)
(***************************************************************************)
\* C16: every record get_info returns is a dict, never None, whose key set
\* is exactly the key set of the adapter's _get_empty_info, on the
\* not-found and failure paths and for a fetched page alike.
C16_InfoHasDocumentedKeys ==
    aPc = "info_returned" =>
        /\ ~aInfo.none
        /\ DOMAIN aInfo.dict = DOMAIN EmptyInfo(aAdapter)

\* C17: the candidates are probed in list order; every probe before the
\* last one failed or answered non-OK; a candidate is returned exactly when
\* it is the last one probed and answered OK, and nothing is probed after
\* it; the result is "" exactly when every candidate was probed and none
\* answered OK.
C17_ProbesInOrderStopAtFirstOk ==
    /\ \A i \in 1..Len(aProbed) : aProbed[i] = i
    /\ \A i \in 1..(Len(aProbed) - 1) : aProbe[i] # "200"
    /\ (aPc # "probing" /\ aUrl # "") =>
           /\ aProbed # <<>>
           /\ aUrl = Candidates(aAdapter)[Len(aProbed)]
           /\ aProbe[Len(aProbed)] = "200"
    /\ (aPc # "probing" /\ aUrl = "") =>
           /\ Len(aProbed) = Len(Candidates(aAdapter))
           /\ \A i \in 1..Len(aProbed) : aProbe[i] # "200"
    /\ (aProbed # <<>> /\ aProbe[Len(aProbed)] = "200") => aPc # "probing"

\* Only the third candidate answers OK (the first raises, the second
\* answers another status): it is returned and the fourth, which would
\* answer OK too, is never probed.
C17_Witness ==
    /\ aPc = "url_returned"
    /\ aProbe[1] = "raise"
    /\ aProbe[2] = "404"
    /\ aProbe[3] = "200"
    /\ aProbe[4] = "200"
    /\ aProbed = <<1, 2, 3>>
    /\ aUrl = Candidates(aAdapter)[3]

(***************************************************************************)
(* providers/torrent/leetx_searcher.py: _parse_show_title and              *)
(* _search_leetx_tv.  A release name is the sequence of its tokens (the    *)
(* parts between the separators); a row of a result page has its link,     *)
(* its release name and its seed count.                                    *)
(***************************************************************************)
\* max_pages = 5
MaxPages == 5
MaxRows == 2

NameEpisode == <<"Show", "S01E02", "720p">>
NamePack == <<"Show", "Season 2", "Complete">>
NamePlain == <<"Show", "2019", "WEBRip">>
NameOther == <<"Other", "S01E02">>

\* What the season+episode patterns and the season-pack patterns find in a
\* token.
TokenMatch(tok) ==
    CASE tok = "S01E02" -> [kind |-> "season_episode", season |-> 1, episode |-> 2]
      [] tok = "Season 2" -> [kind |-> "season_pack", season |-> 2, episode |-> 0]
      [] OTHER -> [kind |-> "none", season |-> 0, episode |-> 0]

\* re.search: the position of the leftmost token of the kind, 0 if none.
FirstMatch(name, kind) ==
    IF \E i \in 1..Len(name) : TokenMatch(name[i]).kind = kind
    THEN CHOOSE i \in 1..Len(name) :
             /\ TokenMatch(name[i]).kind = kind
             /\ \A j \in 1..(i - 1) : TokenMatch(name[j]).kind # kind
    ELSE 0

\* title_part.replace('.', ' ') with the trailing separators removed.
RECURSIVE JoinTokens(_)
JoinTokens(toks) ==
    IF toks = <<>> THEN ""
    ELSE IF Len(toks) = 1 THEN toks[1]
    ELSE toks[1] \o " " \o JoinTokens(Tail(toks))

\* for pattern, quality in quality_patterns.items(): if pattern in raw_title
QualityOf(name) ==
    IF \E i \in 1..Len(name) : name[i] = "720p" THEN "720p" ELSE "unknown"

\* _parse_show_title: the season+episode patterns first, the season-pack
\* patterns if none of them matches; with no match at all the result keeps
\* season 0, episode 0 and the whole name as its title.  None is returned
\* only from the except clause.
ParseShowTitle(name) ==
    LET se == FirstMatch(name, "season_episode")
        sp == FirstMatch(name, "season_pack")
        at == IF se # 0 THEN se ELSE sp
    IN [none |-> FALSE,
        title |-> JoinTokens(IF at = 0 THEN name ELSE SubSeq(name, 1, at - 1)),
        season |-> IF at = 0 THEN 0 ELSE TokenMatch(name[at]).season,
        episode |-> IF at = 0 THEN 0 ELSE TokenMatch(name[at]).episode,
        quality |-> QualityOf(name)]

\* No season+episode pattern and no season-pack pattern matches the name.
Unparseable(name) ==
    /\ FirstMatch(name, "season_episode") = 0
    /\ FirstMatch(name, "season_pack") = 0

Row(href, name, seeds) ==
    [cell |-> TRUE, href |-> href, name |-> name, seeds |-> seeds]

\* A row without a td.name cell.
RowNoCell == [cell |-> FALSE, href |-> "", name |-> <<>>, seeds |-> 0]

RowUniverse ==
    {Row("/t/1", NameEpisode, 5), Row("/t/2", NamePack, 9),
     Row("/t/3", NamePlain, 7), Row("/t/4", NameOther, 2), RowNoCell}

MagnetOf(href) == "magnet:" \o href

LeetxTorrent(row, info) ==
    [url |-> MagnetOf(row.href), seeds |-> row.seeds, quality |-> info.quality]

\* shows[show_name][season][episode].append(torrent): the groups are kept
\* in the order in which they were first written.
AddToShows(shows, show, season, episode, t) ==
    IF \E i \in 1..Len(shows) :
           /\ shows[i].show = show
           /\ shows[i].season = season
           /\ shows[i].episode = episode
    THEN [i \in 1..Len(shows) |->
              IF /\ shows[i].show = show
                 /\ shows[i].season = season
                 /\ shows[i].episode = episode
              THEN [shows[i] EXCEPT !.torrents = Append(@, t)]
              ELSE shows[i]]
    ELSE Append(shows, [show |-> show, season |-> season,
                        episode |-> episode, torrents |-> <<t>>])

\* The elements of a sequence, each once, in order of first occurrence.
RECURSIVE Distinct(_)
Distinct(s) ==
    IF s = <<>> THEN <<>>
    ELSE <<Head(s)>> \o Distinct(SelectSeq(Tail(s), LAMBDA x : x # Head(s)))

\* shows.keys()
ShowNames(shows) == Distinct([i \in 1..Len(shows) |-> shows[i].show])

\* f"{season_num:02d}"
TwoDigits(n) == IF n < 10 THEN "0" \o ToString(n) ELSE ToString(n)

PackTitle(show, season) ==
    show \o " Season " \o ToString(season) \o " (Complete)"

EpisodeTitle(show, season, episode) ==
    show \o " S" \o TwoDigits(season) \o "E" \o TwoDigits(episode)

LeetxMovie(title, torrents, poster) ==
    [title |-> title, torrents |-> torrents, poster_url |-> poster]

\* The Movies of one season: the season pack, if any, then the episodes.
MoviesOfSeason(groups, poster) ==
    LET packs == SelectSeq(groups, LAMBDA g : g.episode = 0)
        eps == SelectSeq(groups, LAMBDA g : g.episode # 0)
    IN [i \in 1..Len(packs) |->
            LeetxMovie(PackTitle(packs[i].show, packs[i].season),
                       packs[i].torrents, poster)]
       \o [i \in 1..Len(eps) |->
               LeetxMovie(EpisodeTitle(eps[i].show, eps[i].season,
                                       eps[i].episode),
                          eps[i].torrents, poster)]

RECURSIVE MoviesOfSeasons(_, _, _)
MoviesOfSeasons(groups, seasons, poster) ==
    IF seasons = <<>> THEN <<>>
    ELSE MoviesOfSeason(SelectSeq(groups, LAMBDA g : g.season = Head(seasons)),
                        poster)
         \o MoviesOfSeasons(groups, Tail(seasons), poster)

\* for season_num, episodes in seasons.items(): ...
MoviesOfShow(shows, show, poster) ==
    LET groups == SelectSeq(shows, LAMBDA g : g.show = show)
        seasons == Distinct([i \in 1..Len(groups) |-> groups[i].season])
    IN MoviesOfSeasons(groups, seasons, poster)

\* The network calls of the search that pass a timeout argument:
\* session.get(current_url, verify=True), session.get(torrent_url) and the
\* requests.get calls of TMDBClient pass none.
CallsWithTimeout == {}

\* What becomes of a call whose endpoint accepts the request and never
\* answers: requests raises a Timeout when a timeout was passed, and waits
\* without end when none was.
NeverAnswered(site) ==
    IF site \in CallsWithTimeout THEN "timeout" ELSE "blocked"

\* What the request of a result page can end in.
PageOutcomes ==
    {[kind |-> "page", rows |-> rs, hasNext |-> n] :
         rs \in SeqUpTo(RowUniverse, MaxRows), n \in BOOLEAN}
    \cup {[kind |-> k, rows |-> <<>>, hasNext |-> FALSE] :
              k \in {"http_error", "connection_error", "no_response"}}

\* What the request of a row's detail page can end in.
DetailOutcomes == {"magnet", "no_magnet", "connection_error", "no_response"}

\* What the TMDB lookups of a show can end in.
TmdbOutcomes == {"found", "not_found", "error", "no_response"}

\* The except clauses that end _search_leetx_tv.
LeetxExceptClauses(k) ==
    CASE k = "http_error" -> "MovieAPIError"
      [] k = "connection_error" -> "ConnectionBlockedError"
      [] OTHER -> "MovieSearchError"

InitLeetx ==
    /\ lPc = "loop"
    /\ lLimit \in Limits
    /\ lPage = 1
    /\ lRows = <<>>
    /\ lHasNext = FALSE
    /\ lTotal = 0
    /\ lShows = <<>>
    /\ lTodo = <<>>
    /\ lResults = <<>>
    /\ lRaised = "none"
    /\ lWaiting = "none"
    /\ lRequests = [pages |-> 0, details |-> 0]
    /\ CoreIdle
    /\ IdleExcept("Leetx")

\* while total_results < limit and page <= max_pages
LoopGoesOn == lTotal < lLimit /\ lPage <= MaxPages

\* The start of the result loop: for show_name, seasons in shows.items()
StartBuild ==
    /\ lPc' = "build"
    /\ lTodo' = ShowNames(lShows)

\* lines 52-61: the request of the next result page; no rows ends the loop.
RequestPage(o) ==
    /\ lPc = "loop"
    /\ LoopGoesOn
    /\ LET k == IF o.kind = "no_response"
                THEN NeverAnswered("result_page") ELSE o.kind
       IN CASE k = "page" /\ o.rows # <<>> ->
                   /\ lPc' = "rows"
                   /\ lRows' = o.rows
                   /\ lHasNext' = o.hasNext
                   /\ UNCHANGED <<lTodo, lRaised, lWaiting>>
            [] k = "page" /\ o.rows = <<>> ->
                   /\ StartBuild
                   /\ UNCHANGED <<lRows, lHasNext, lRaised, lWaiting>>
            [] k = "blocked" ->
                   /\ lPc' = "blocked"
                   /\ lWaiting' = "result_page"
                   /\ UNCHANGED <<lRows, lHasNext, lTodo, lRaised>>
            [] OTHER ->
                   /\ lPc' = "raised"
                   /\ lRaised' = LeetxExceptClauses(k)
                   /\ UNCHANGED <<lRows, lHasNext, lTodo, lWaiting>>
    /\ lRequests' = [lRequests EXCEPT !.pages = @ + 1]
    /\ UNCHANGED <<lLimit, lPage, lTotal, lShows, lResults>>
    /\ LeetxFrame

\* The while condition is false.
LeaveLoop ==
    /\ lPc = "loop"
    /\ ~LoopGoesOn
    /\ StartBuild
    /\ UNCHANGED <<lLimit, lPage, lRows, lHasNext, lTotal, lShows, lResults,
                   lRaised, lWaiting, lRequests>>
    /\ LeetxFrame

\* line 89: the detail pages requested for one row: one, unless the row is
\* skipped before (no name cell, or a parse that returned None).
DetailRequests(row) ==
    IF row.cell /\ ~ParseShowTitle(row.name).none THEN 1 ELSE 0

\* lines 64-117: one row.  A row without a name cell, a row whose parse
\* returned None and a row whose processing raised are skipped; otherwise
\* its torrent is filed under its show, season and episode (episode 0 when
\* the parse gave no episode), and reaching the limit ends the page.
ProcessRow(d) ==
    /\ lPc = "rows"
    /\ lRows # <<>>
    /\ LET row == Head(lRows)
           info == ParseShowTitle(row.name)
       IN IF ~row.cell \/ info.none
          THEN /\ lRows' = Tail(lRows)
               /\ UNCHANGED <<lPc, lTotal, lShows, lWaiting>>
          ELSE CASE d = "magnet" ->
                        /\ lShows' = AddToShows(lShows, info.title, info.season,
                                                info.episode,
                                                LeetxTorrent(row, info))
                        /\ lTotal' = lTotal + 1
                        /\ lRows' = IF lTotal' >= lLimit THEN <<>> ELSE Tail(lRows)
                        /\ UNCHANGED <<lPc, lWaiting>>
                 [] d = "no_response" /\ NeverAnswered("detail_page") = "blocked" ->
                        /\ lPc' = "blocked"
                        /\ lWaiting' = "detail_page"
                        /\ UNCHANGED <<lRows, lTotal, lShows>>
                 [] OTHER ->
                        /\ lRows' = Tail(lRows)
                        /\ UNCHANGED <<lPc, lTotal, lShows, lWaiting>>
    /\ lRequests' =
           [lRequests EXCEPT !.details = DetailRequests(Head(lRows))]
    /\ UNCHANGED <<lLimit, lPage, lHasNext, lTodo, lResults, lRaised>>
    /\ LeetxFrame

\* lines 119-129: the pagination check after the rows of a page.
EndOfPage ==
    /\ lPc = "rows"
    /\ lRows = <<>>
    /\ IF lHasNext
       THEN /\ lPc' = "loop"
            /\ lPage' = lPage + 1
            /\ UNCHANGED lTodo
       ELSE /\ StartBuild
            /\ UNCHANGED lPage
    /\ UNCHANGED <<lLimit, lRows, lHasNext, lTotal, lShows, lResults, lRaised,
                   lWaiting, lRequests>>
    /\ LeetxFrame

\* lines 133-198: one show of the result loop: the TMDB lookups, then a
\* Movie per season pack and per episode; a show whose lookups raise is
\* left out.
BuildShow(o) ==
    /\ lPc = "build"
    /\ lTodo # <<>>
    /\ LET k == IF o = "no_response" THEN NeverAnswered("tmdb") ELSE o
       IN CASE k = "blocked" ->
                   /\ lPc' = "blocked"
                   /\ lWaiting' = "tmdb"
                   /\ UNCHANGED <<lTodo, lResults>>
            [] k \in {"found", "not_found"} ->
                   /\ lResults' = lResults
                          \o MoviesOfShow(lShows, Head(lTodo),
                                          IF k = "found" THEN "tmdb_poster" ELSE "")
                   /\ lTodo' = Tail(lTodo)
                   /\ UNCHANGED <<lPc, lWaiting>>
            [] OTHER ->
                   /\ lTodo' = Tail(lTodo)
                   /\ UNCHANGED <<lPc, lResults, lWaiting>>
    /\ UNCHANGED <<lLimit, lPage, lRows, lHasNext, lTotal, lShows, lRaised,
                   lRequests>>
    /\ LeetxFrame

\* line 200: return final_results
ReturnResults ==
    /\ lPc = "build"
    /\ lTodo = <<>>
    /\ lPc' = "returned"
    /\ UNCHANGED <<lLimit, lPage, lRows, lHasNext, lTotal, lShows, lTodo,
                   lResults, lRaised, lWaiting, lRequests>>
    /\ LeetxFrame

NextLeetx ==
    \/ \E o \in PageOutcomes : RequestPage(o)
    \/ LeaveLoop
    \/ \E d \in DetailOutcomes : ProcessRow(d)
    \/ EndOfPage
    \/ \E o \in TmdbOutcomes : BuildShow(o)
    \/ ReturnResults

SpecLeetx == InitLeetx /\ [][NextLeetx]_vars

\* The search goes on whenever it can: it is one thread that is never
\* suspended from outside.
SpecLeetxFair == SpecLeetx /\ WF_vars(NextLeetx)

(***************************************************************************)
(* Properties of the scraping adapter.                                     *)
(***************************************************************************)
TorrentUrls(ms) ==
    UNION {{ms[i].torrents[j].url : j \in 1..Len(ms[i].torrents)} :
               i \in 1..Len(ms)}

\* C18: a row whose release name matches none of the season+episode
\* patterns and none of the season-pack patterns contributes no torrent to
\* the groups and no torrent and no Movie to the result.
C18_UnparseableRowSkipped ==
    \A row \in RowUniverse :
        (row.cell /\ Unparseable(row.name)) =>
            /\ MagnetOf(row.href) \notin TorrentUrls(lShows)
            /\ MagnetOf(row.href) \notin TorrentUrls(lResults)

\* C19: every network wait of the search is bounded, so the search
\* eventually returns or raises whatever its endpoints do.
C19_SearchEventuallyEnds == <>(lPc \in {"returned", "raised"})

(***************************************************************************)
(* TorrentSource.from_display_name (src/domin/models.py).                  *)
(*                                                                         *)
(* The members of the enum in definition order, each with the "name" of    *)
(* its value.  The values are pairwise unequal dicts, so the enum has no   *)
(* aliases and iterating the class yields all eleven members.              *)
(***************************************************************************)
MaxLookups == 3

Member(member, name) == [member |-> member, name |-> name]

TorrentSource ==
    << Member("YTS", "YTS.mx"),
       Member("LEETX", "1337x"),
       Member("RARBG", "RARBG"),
       Member("TORRENTGALAXY", "TorrentGalaxy"),
       Member("EZTVX", "EZTVx"),
       Member("EXT", "EXT"),
       Member("OXTORRENT", "OxTorrent"),
       Member("THEPIRATEBAY", "The Pirate Bay"),
       Member("LIMETORRENTS", "LimeTorrents"),
       Member("TORRENTDOWNLOADS", "TorrentDownloads"),
       Member("TORLOCK", "Torlock") >>

SourceDisplayNames == { TorrentSource[i].name : i \in DOMAIN TorrentSource }

\* Strings a caller may pass that differ from a display name in case only.
CaseVariants ==
    { "yts.mx", "YTS.MX", "1337X", "rarbg", "torrentgalaxy", "eztvx", "EZTVX",
      "ext", "Ext", "oxtorrent", "the pirate bay", "limetorrents",
      "torrentdownloads", "torlock", "TORLOCK" }

\* ... in surrounding or inner whitespace only.
WhitespaceVariants ==
    { n \o " " : n \in SourceDisplayNames } \cup { " " \o n : n \in SourceDisplayNames }
        \cup { "ThePirateBay", "The  Pirate Bay" }

\* ... and strings that are no display name at all; the member names are
\* among them.
Strangers == { "", " ", "YTS", "LEETX", "Kickass" }

LookupNames ==
    SourceDisplayNames \cup CaseVariants \cup WhitespaceVariants \cup Strangers

\* A comparison that ignores one leading or trailing blank.
EqualsStripped(value, name) ==
    \/ value = name
    \/ value \o " " = name
    \/ " " \o value = name
    \/ value = name \o " "
    \/ value = " " \o name

\* source.value["name"] == name
NameEquals(value, name) == value = name

\* for source in cls: if source.value["name"] == name: return source
\* raise ValueError(...)
RECURSIVE FromDisplayNameFrom(_, _)
FromDisplayNameFrom(i, name) ==
    IF i > Len(TorrentSource)
    THEN "ValueError"
    ELSE IF NameEquals(TorrentSource[i].name, name)
         THEN TorrentSource[i].member
         ELSE FromDisplayNameFrom(i + 1, name)

from_display_name(name) == FromDisplayNameFrom(1, name)

InitLookup ==
    /\ LookupIdle
    /\ CoreIdle
    /\ IdleExcept("Lookup")

CallFromDisplayName(name) ==
    /\ nCalls < MaxLookups
    /\ nName' = name
    /\ nResult' = from_display_name(name)
    /\ nCalls' = nCalls + 1
    /\ LookupFrame

NextLookup == \E name \in LookupNames : CallFromDisplayName(name)

SpecLookup == InitLookup /\ [][NextLookup]_vars

\* C20: from_display_name is an exact-match lookup: called with the display
\* name of a registered source it returns that source, and called with any
\* string that equals no display name exactly (case and whitespace variants
\* included) it raises ValueError instead of returning a source.
C20_ExactMatchLookup ==
    nCalls > 0 =>
        /\ \A i \in DOMAIN TorrentSource :
              nName = TorrentSource[i].name
                  => nResult = TorrentSource[i].member
        /\ nName \notin SourceDisplayNames => nResult = "ValueError"

\* The last of MaxLookups calls was made with a case or whitespace variant
\* of a display name and raised ValueError.
C20_Witness ==
    /\ nCalls = MaxLookups
    /\ nName \in CaseVariants \cup WhitespaceVariants
    /\ nResult = "ValueError"

(***************************************************************************)
(* The offered source lists: TorrentSource.get_sources_by_category         *)
(* (src/domin/models.py) and the lists MovieSearchApp._init_ui builds from *)
(* it for the two combo boxes (src/app.py).                                *)
(***************************************************************************)
\* source.config["category"] of every member.
CategoryOf ==
    [ YTS |-> "Movies", LEETX |-> "All", RARBG |-> "All",
      TORRENTGALAXY |-> "All", EZTVX |-> "TV Series", EXT |-> "All",
      OXTORRENT |-> "All", THEPIRATEBAY |-> "All", LIMETORRENTS |-> "All",
      TORRENTDOWNLOADS |-> "All", TORLOCK |-> "All" ]

\* category_order, its keys in insertion order.
CategoryKeys == <<"Movies", "TV Series", "All">>

category_order ==
    [ c \in {"Movies", "TV Series", "All"} |->
        CASE c = "Movies" -> <<"YTS">>
          [] c = "TV Series" -> <<"LEETX", "EZTVX">>
          [] c = "All" -> << "LEETX", "RARBG", "TORRENTGALAXY", "EXT",
                             "OXTORRENT", "THEPIRATEBAY", "LIMETORRENTS",
                             "TORRENTDOWNLOADS", "TORLOCK" >> ]

IsIn(list, x) == \E i \in DOMAIN list : list[i] = x

\* for source in cls: if category in categories and source not in
\* categories[category]: categories[category].append(source)
RECURSIVE AppendRemaining(_, _)
AppendRemaining(i, categories) ==
    IF i > Len(TorrentSource)
    THEN categories
    ELSE LET source == TorrentSource[i].member
             category == CategoryOf[source]
         IN  IF /\ category \in DOMAIN categories
                /\ ~IsIn(categories[category], source)
             THEN AppendRemaining(i + 1,
                      [categories EXCEPT
                          ![category] = Append(@, source)])
             ELSE AppendRemaining(i + 1, categories)

get_sources_by_category == AppendRemaining(1, category_order)

\* The alternative that puts the catch-all sources first.
AllSourcesFirst(sources, all_sources) == all_sources \o sources

\* categories[category] = sources + all_sources
WithAllSources(sources, all_sources) == sources \o all_sources

\* The dict _init_ui stores in self.categories.
DistributeAll(raw_categories) ==
    IF "All" \in DOMAIN raw_categories
    THEN [ c \in DOMAIN raw_categories \ {"All"} |->
             WithAllSources(raw_categories[c], raw_categories["All"]) ]
    ELSE [ c \in DOMAIN raw_categories |->
             WithAllSources(raw_categories[c], <<>>) ]

\* list(categories.keys())[0]
FirstCategory(categories) ==
    LET kept == SelectSeq(CategoryKeys, LAMBDA c : c \in DOMAIN categories)
    IN  kept[1]

\* sourceComboBox.currentText()
DisplayNameOf(member) ==
    LET i == CHOOSE j \in DOMAIN TorrentSource :
                 TorrentSource[j].member = member
    IN  TorrentSource[i].name

InitCatalog ==
    /\ CatalogIdle
    /\ CoreIdle
    /\ IdleExcept("Catalog")

\* MovieSearchApp._init_ui, the first _update_sources included.
InitUi ==
    /\ gPc = "class"
    /\ LET categories == DistributeAll(get_sources_by_category)
           first == FirstCategory(categories)
       IN  /\ gCategories' = categories
           /\ gCategory' = first
           /\ gItems' = categories[first]
           /\ gIndex' = 1
    /\ gPc' = "ui"
    /\ UNCHANGED gSelected
    /\ CatalogFrame

\* _update_sources(category), run when the category combo box changes.
UpdateSources(category) ==
    /\ gPc = "ui"
    /\ category # gCategory
    /\ gCategory' = category
    /\ gItems' = gCategories[category]
    /\ gIndex' = 1
    /\ UNCHANGED <<gPc, gCategories, gSelected>>
    /\ CatalogFrame

\* The user picks another entry of the source combo box.
PickSource(i) ==
    /\ gPc = "ui"
    /\ i # gIndex
    /\ gIndex' = i
    /\ UNCHANGED <<gPc, gCategories, gCategory, gItems, gSelected>>
    /\ CatalogFrame

\* _perform_search: TorrentSource.from_display_name(currentText()).
ResolveSelected ==
    /\ gPc = "ui"
    /\ gSelected' = from_display_name(DisplayNameOf(gItems[gIndex]))
    /\ UNCHANGED <<gPc, gCategories, gCategory, gItems, gIndex>>
    /\ CatalogFrame

NextCatalog ==
    \/ InitUi
    \/ \E category \in DOMAIN gCategories : UpdateSources(category)
    \/ \E i \in DOMAIN gItems : PickSource(i)
    \/ ResolveSelected

SpecCatalog == InitCatalog /\ [][NextCatalog]_vars

EnumIndex(member) ==
    CHOOSE j \in DOMAIN TorrentSource : TorrentSource[j].member = member

Prioritized(category, member) == IsIn(category_order[category], member)

\* In list, the sources prioritized for category come before the others,
\* and the others stand in enumeration order.
PrioritizedFirst(category, list) ==
    \A i, j \in DOMAIN list :
        i < j =>
            /\ ~(/\ ~Prioritized(category, list[i])
                 /\ Prioritized(category, list[j]))
            /\ (/\ ~Prioritized(category, list[i])
                /\ ~Prioritized(category, list[j]))
                  => EnumIndex(list[i]) < EnumIndex(list[j])

AllTagged == { m \in DOMAIN CategoryOf : CategoryOf[m] = "All" }

\* C21: once the window is built, every source tagged "All" stands in its
\* own category's list as get_sources_by_category returns it and in the
\* offered list of every other category; and in each list, returned or
\* offered, the sources prioritized for the category come before the
\* un-prioritized ones, which follow in enumeration order.
C21_AllSourcesEverywherePrioritizedFirst ==
    gPc = "ui" =>
        /\ \A m \in AllTagged :
              /\ IsIn(get_sources_by_category["All"], m)
              /\ \A c \in DOMAIN gCategories : IsIn(gCategories[c], m)
        /\ \A c \in DOMAIN get_sources_by_category :
              PrioritizedFirst(c, get_sources_by_category[c])
        /\ \A c \in DOMAIN gCategories : PrioritizedFirst(c, gCategories[c])
        /\ gItems = gCategories[gCategory]

\* The source combo box shows the TV Series list, the entry chosen is a
\* source tagged "All" that is not prioritized for TV Series, and
\* _perform_search has resolved it.
C21_Witness ==
    /\ gPc = "ui"
    /\ gCategory = "TV Series"
    /\ gItems[gIndex] \in AllTagged
    /\ ~Prioritized("TV Series", gItems[gIndex])
    /\ gSelected = gItems[gIndex]

NoDuplicates(list) ==
    \A i, j \in DOMAIN list : list[i] = list[j] => i = j

\* C30: every source appears at most once in each list returned by
\* get_sources_by_category and at most once in each category's list that
\* _init_ui builds by appending the "All" sources.
C30_NoSourceTwice ==
    gPc = "ui" =>
        /\ \A c \in DOMAIN get_sources_by_category :
              NoDuplicates(get_sources_by_category[c])
        /\ \A c \in DOMAIN gCategories : NoDuplicates(gCategories[c])

(***************************************************************************)
(* TorrentSearcher.search: the order of its phases, its truncation and     *)
(* its dependence on the completion order of its tasks.                    *)
(***************************************************************************)
\* The phase changes one search call can make.
PhaseChanges ==
    { <<"idle", "dispatching">>, <<"dispatching", "enriching">>,
      <<"dispatching", "raised">>, <<"enriching", "done">> }

\* Source tasks and enrichment tasks never run side by side, and none is
\* left when the call has ended.
TasksWithinPhases ==
    /\ pendingEnrich # {} => pc = "enriching"
    /\ pendingSrc # {} => pc = "dispatching"
    /\ pc = "enriching" => pendingSrc = {}
    /\ (enriched # <<>> \/ enrichFailed # {}) => pendingSrc = {}
    /\ pc \in {"done", "raised"} => pendingSrc = {} /\ pendingEnrich = {}

\* C22: one search call passes through dispatch, merge and sort/limit,
\* enrich, done in this order; no enrichment task starts before every
\* dispatched source task has completed or failed; and when the call
\* ends, none of the tasks it dispatched is still running.
C22_PhasesInOrderNoTaskOutlives ==
    /\ []TasksWithinPhases
    /\ [][pc' # pc => <<pc, pc'>> \in PhaseChanges]_vars

\* A search has returned after two source tasks and an enrichment task
\* completed.
C22_Witness ==
    /\ pc = "done"
    /\ Len(results) >= 2
    /\ Len(returned) >= 1

StripMetadata(m) == [m EXCEPT !.metadata = NoMetadata]

Elements(ms) == { ms[i] : i \in 1..Len(ms) }

KeysDistinct(ms) ==
    \A i, j \in 1..Len(ms) : DedupKey(ms[i]) = DedupKey(ms[j]) => i = j

\* C23: the returned list has at most limit entries, and the truncation
\* comes after dedup+merge and sort: the records counted are the merged
\* ones (one per key, carrying the torrents of all its duplicates), the
\* ones kept are the limit of them with the highest maximum seed count,
\* and every returned entry is one of those.
C23_LimitAfterDedupAndSort ==
    pc \in {"enriching", "done"} =>
        LET unique == DeduplicateResults(results)
        IN  /\ KeysDistinct(unique)
            /\ Len(sortedResults) =
                   IF limit < Len(unique) THEN limit ELSE Len(unique)
            /\ Elements(sortedResults) \subseteq Elements(unique)
            /\ KeysDistinct(sortedResults)
            /\ \A u \in Elements(unique) \ Elements(sortedResults) :
                  \A k \in Elements(sortedResults) :
                      MaxSeeds(k) >= MaxSeeds(u)
            /\ pc = "done" =>
                  /\ Len(returned) <= limit
                  /\ KeysDistinct(returned)
                  /\ \A i \in 1..Len(returned) :
                        StripMetadata(returned[i]) \in Elements(sortedResults)

\* A search has returned limit entries after the truncation dropped a
\* deduplicated record with fewer seeds.
C23_Witness ==
    /\ pc = "done"
    /\ Len(uniqueResults) > limit
    /\ Len(returned) = limit
    /\ \E u \in Elements(uniqueResults) \ Elements(sortedResults) :
          \A k \in Elements(sortedResults) : MaxSeeds(k) > MaxSeeds(u)

\* The results list when the source tasks are yielded in source order.
RECURSIVE ResultsInSourceOrder(_)
ResultsInSourceOrder(s) ==
    IF s > NumSources
    THEN <<>>
    ELSE (IF srcOutcome[s].kind = "ok" THEN srcOutcome[s].movies ELSE <<>>)
             \o ResultsInSourceOrder(s + 1)

\* C26: for fixed per-source results, the returned list (records, scalar
\* fields, order of each merged torrent list, order of the records) is the
\* same for every completion order of the source and enrichment tasks:
\* it is the list obtained when every task is yielded in submission order.
C26_CompletionOrderIrrelevant ==
    (pc = "done" /\ enrichFailed = {}) =>
        LET inOrder == Truncate(SortBySeedsDesc(
                           DeduplicateResults(ResultsInSourceOrder(1))), limit)
        IN  returned =
                [i \in 1..Len(inOrder) |->
                    WithMetadata(inOrder[i], MetadataMapping)]

\* The torrents filed in the groups.
RECURSIVE CollectedCount(_)
CollectedCount(shows) ==
    IF shows = <<>> THEN 0
    ELSE Len(Head(shows).torrents) + CollectedCount(Tail(shows))

\* The bounds of one scraping search on its requests and its torrents.
LeetxBounded ==
    /\ lRequests.pages <= MaxPages
    /\ lTotal <= lLimit
    /\ CollectedCount(lShows) = lTotal
    /\ lRequests.details <= 1

\* The pagination loop has been left.
LoopLeft ==
    \/ lPc \in {"build", "returned", "raised"}
    \/ lPc = "blocked" /\ lWaiting = "tmdb"

\* C24: whatever result pages the site serves, pages that always hold rows
\* and always advertise a next page included, one scraping search
\* requests at most 5 result pages, collects at most limit torrents,
\* requests at most one detail page per row it handles, and its pagination
\* loop ends.
C24_PaginationBoundedAndEnds == []LeetxBounded /\ <>LoopLeft

\* The title of the Movie a group is materialized as.
GroupTitle(g) ==
    IF g.episode = 0
    THEN PackTitle(g.show, g.season)
    ELSE EpisodeTitle(g.show, g.season, g.episode)

\* C27: when the scraping search returns, every (show, season,
\* episode-or-0) group of collected torrents is materialized as exactly one
\* returned Movie carrying the group's torrents, and there is no other
\* Movie: no group is lost, also when the TMDB lookup of its show failed.
C27_EveryGroupOneMovie ==
    lPc = "returned" =>
        /\ Len(lResults) = Len(lShows)
        /\ \A i \in 1..Len(lShows) :
              Cardinality({ j \in 1..Len(lResults) :
                              /\ lResults[j].title = GroupTitle(lShows[i])
                              /\ lResults[j].torrents = lShows[i].torrents })
                  = 1

\* C25: for every list of requested source names, the empty list and lists
\* of unknown names only included, get_metadata returns a mapping and does
\* not raise; unknown names are skipped, so the keys of the mapping are
\* among the requested names that are registered.
C25_UnknownSkippedNeverRaises ==
    /\ mPc # "raised"
    /\ mPc = "returned" =>
           /\ DOMAIN mMetadata \subseteq RegisteredSources
           /\ DOMAIN mMetadata \subseteq
                  {EffectiveSources(mRequest)[i] :
                       i \in 1..Len(EffectiveSources(mRequest))}

\* C28: every response make_api_request returns has a 2xx status; a
\* redirect or error status received on the fast attempt, which does not
\* follow redirects, is never returned but followed by a resilient attempt.
C28_ReturnedIsSuccess ==
    /\ hPc = "returned" => hLog[Len(hLog)].outcome = "2xx"
    /\ (/\ Len(hLog) = 1
        /\ hLog[1].path = "fast"
        /\ hLog[1].outcome \in {"3xx", "4xx", "5xx"}) => hPc = "calling"

(***************************************************************************)
(* The enrichment constructors of the frozen dataclass Movie               *)
(* (src/domin/models.py): each builds a new Movie from the receiver's      *)
(* fields; a field the constructor call does not pass takes its default.   *)
(***************************************************************************)
MaxEnrich == 3

MetadataValues == {"md1", "md2"}
MetacriticUrls == {"https://www.metacritic.com/movie/up"}
MetacriticInfos == {"info1", "info2"}

\* with_metacritic_data(url, info): metadata is not passed.
with_metacritic_data(self, url, info) ==
    [title |-> self.title, torrents |-> self.torrents,
     poster_url |-> self.poster_url,
     metacritic_url |-> url, metacritic_info |-> info,
     metadata |-> "None"]

\* with_metadata(metadata): metacritic_url and metacritic_info are not
\* passed.
with_metadata(self, metadata) ==
    [title |-> self.title, torrents |-> self.torrents,
     poster_url |-> self.poster_url,
     metacritic_url |-> "", metacritic_info |-> "None",
     metadata |-> metadata]

InitEnrich ==
    /\ \E t \in {"Up", "Heat"}, p \in {"p1", "p2"} :
           /\ eReceiver = DomainMovie(t, p)
           /\ eMovie = DomainMovie(t, p)
    /\ eOps = <<>>
    /\ CoreIdle
    /\ IdleExcept("Enrich")

\* movie = movie.with_metadata(md)
ApplyWithMetadata(md) ==
    /\ Len(eOps) < MaxEnrich
    /\ eReceiver' = eMovie
    /\ eMovie' = with_metadata(eMovie, md)
    /\ eOps' = Append(eOps, "with_metadata")
    /\ EnrichFrame

\* movie = movie.with_metacritic_data(url, info)
ApplyWithMetacriticData(url, info) ==
    /\ Len(eOps) < MaxEnrich
    /\ eReceiver' = eMovie
    /\ eMovie' = with_metacritic_data(eMovie, url, info)
    /\ eOps' = Append(eOps, "with_metacritic_data")
    /\ EnrichFrame

NextEnrich ==
    \/ \E md \in MetadataValues : ApplyWithMetadata(md)
    \/ \E url \in MetacriticUrls, info \in MetacriticInfos :
           ApplyWithMetacriticData(url, info)

SpecEnrich == InitEnrich /\ [][NextEnrich]_vars

OwnFields(op) ==
    IF op = "with_metadata"
    THEN {"metadata"}
    ELSE {"metacritic_url", "metacritic_info"}

\* C29: the Movie a constructor returns equals its receiver in every field
\* but the constructor's own (metadata for with_metadata; metacritic_url
\* and metacritic_info for with_metacritic_data), so a Movie built by
\* applying both, in either order, carries both enrichments.
C29_ConstructorsChangeOwnFieldsOnly ==
    /\ eOps # <<>> =>
           \A f \in DOMAIN eReceiver \ OwnFields(eOps[Len(eOps)]) :
               eMovie[f] = eReceiver[f]
    /\ {eOps[i] : i \in 1..Len(eOps)} =
           {"with_metadata", "with_metacritic_data"} =>
               /\ eMovie.metadata \in MetadataValues
               /\ eMovie.metacritic_url \in MetacriticUrls
               /\ eMovie.metacritic_info \in MetacriticInfos

====
